---- MODULE Spec2Model ----
(***************************************************************************)
(* HRDF Course Architect: the course-builder form (App.tsx), its AI        *)
(* generation helper (services/geminiService.ts) and its IndexedDB         *)
(* persistence helper (saveCourseToDB, getAllCourses, ...).                *)
(***************************************************************************)
EXTENDS Integers, Sequences, FiniteSets, TLC

\* ------------------------------------------------------------------ bounds
\* Date.now() values the model distinguishes (a logical clock, 1..MaxTime).
MaxTime == 2
\* Asynchronous operations the user starts in one run: saves, imports,
\* deletes, openings of the saved-courses list.
MaxOps == 4
\* AI requests the user starts in one run.
MaxRequests == 2
\* Records a database left by earlier sessions holds.
MaxRecords == 3
MaxCell == 2
MaxEdits == 3
MaxItems == 3

\* ------------------------------------------------------- program constants
\* safeGenerate(model, prompt, schema, retries = 3)
retries == 3
\* steps.length: "General Info" .. "Review & Export"
NumSteps == 5

None == "none"

\* ------------------------------------------------------------- safeGenerate
\* What one call of ai.models.generateContent can do:
\*   "ok"      response.text is JSON text, JSON.parse returns the payload
\*   "empty"   the response carries no text (response.text is falsy)
\*   "badjson" response.text is not valid JSON, JSON.parse throws
\*   "error"   the call itself rejects (transport error)
AttemptOutcomes == {"ok", "empty", "badjson", "error"}

ErrKeyMissing ==
  "API Key missing. Please configure it in Settings or check environment variables."
ErrFailed == "Failed to generate content"
ErrTransport == "transport error"
ErrSyntax == "SyntaxError"

\* const apiKey = storedKey || process.env.API_KEY || ''
ApiKeyOf(stored, env) ==
  IF stored # None /\ stored # "" THEN stored
  ELSE IF env # None /\ env # "" THEN env
  ELSE ""

SgIdle ==
  [pc |-> "idle", i |-> 0, apiKey |-> "", lastError |-> None, remaining |-> 0,
   value |-> None, error |-> None]

\* A faulty variant of the backoff: 1000 * i, so the first wait is 0s.
BackoffDelayFromZero(i) == 1 * i

\* Linear backoff: setTimeout(resolve, 1000 * (i + 1)), in seconds.
BackoffDelay(i) == 1 * (i + 1)

\* A faulty variant of the entry: the key check is missing.
SafeGenerateStartUnchecked(stored, env) ==
  [SgIdle EXCEPT !.pc = "await", !.apiKey = ApiKeyOf(stored, env)]

\* Entry of safeGenerate up to its first await: the key check, then the first
\* generateContent call of the loop.
SafeGenerateStart(stored, env) ==
  IF ApiKeyOf(stored, env) = ""
    THEN [SgIdle EXCEPT !.pc = "threw", !.error = ErrKeyMissing]
    ELSE [SgIdle EXCEPT !.pc = "await", !.apiKey = ApiKeyOf(stored, env)]

\* A faulty variant of the loop test: i <= retries, one call too many.
SafeGenerateNextInclusive(s) ==
  IF s.i + 1 <= retries
    THEN [s EXCEPT !.i = s.i + 1, !.pc = "await", !.remaining = 0]
    ELSE [s EXCEPT !.i = s.i + 1, !.pc = "threw", !.remaining = 0,
                   !.error = IF s.lastError # None THEN s.lastError ELSE ErrFailed]

\* The for-loop's i++ and test: the next generateContent call, or the final
\* throw lastError || new Error("Failed to generate content").
SafeGenerateNext(s) ==
  IF s.i + 1 < retries
    THEN [s EXCEPT !.i = s.i + 1, !.pc = "await", !.remaining = 0]
    ELSE [s EXCEPT !.i = s.i + 1, !.pc = "threw", !.remaining = 0,
                   !.error = IF s.lastError # None THEN s.lastError ELSE ErrFailed]

\* The awaited generateContent call settles with `outcome` (payload when "ok").
SafeGenerateResponse(s, outcome, payload) ==
  CASE outcome = "ok" -> [s EXCEPT !.pc = "returned", !.value = payload]
    [] outcome = "empty" -> SafeGenerateNext(s)
    [] OTHER ->
         [s EXCEPT !.pc = "backoff",
                   !.lastError = IF outcome = "badjson" THEN ErrSyntax ELSE ErrTransport,
                   !.remaining = BackoffDelay(s.i)]

\* One second of the backoff timer passes.
SafeGenerateTick(s) == [s EXCEPT !.remaining = s.remaining - 1]

\* The backoff timer has fired: the catch block ends and the loop goes on.
SafeGenerateResume(s) == SafeGenerateNext(s)

\* The whole backoff wait: the timer runs down, then fires.
RECURSIVE SafeGenerateSleep(_)
SafeGenerateSleep(s) ==
  IF s.remaining > 0 THEN SafeGenerateSleep(SafeGenerateTick(s))
  ELSE SafeGenerateResume(s)

\* Every way a running safeGenerate can end: returned or threw.
RECURSIVE SafeGenerateEnds(_, _)
SafeGenerateEnds(s, payload) ==
  IF s.pc = "await"
    THEN UNION {SafeGenerateEnds(SafeGenerateResponse(s, o, payload), payload) :
                  o \in AttemptOutcomes}
  ELSE IF s.pc = "backoff" THEN SafeGenerateEnds(SafeGenerateSleep(s), payload)
  ELSE {s}

SgRunning(s) == s.pc \in {"await", "backoff"}

\* ------------------------------------------------------------ the document
\* CourseData.id?: string -- absent, or a key: crypto.randomUUID() values are 1, 2, ....
NoId == 0
\* CourseData.lastModified?: number -- absent (undefined).
NoTime == 0 - 1

\* Course titles are token sequences, "" being <<>>, so that appending
\* " (Imported)" is a real operation.
EmptyTitle == <<>>

INITIAL_COURSE_DATA ==
  [id |-> NoId, lastModified |-> NoTime,
   trainerName |-> "", courseTitle |-> EmptyTitle, duration |-> "", location |-> "",
   trainerBio |-> "", trainerTitle |-> "",
   learningOutcomes |-> << [id |-> <<"lo-1">>, text |-> ""] >>,
   iceBreaker |-> "",
   modules |-> << [id |-> <<"mod-1">>, title |-> "Module 1",
                   subTopics |-> << [id |-> <<"sub-1">>, text |-> ""] >>] >>,
   sessionPlan |-> << >>,
   reviewQuestions |-> << [id |-> <<"rv-1">>, question |-> ""] >>]

\* The Settings form before anything is typed: useState({trainerName: "", ...})
BlankDefaults == [trainerName |-> "", trainerTitle |-> "", trainerBio |-> "", location |-> ""]

\* { ...INITIAL_COURSE_DATA, ...defaults }; saved is << >> when nothing is
\* stored (defaults is then {}) and <<d>> when the profile d is stored.
SpreadDefaults(saved) ==
  IF saved = << >> THEN INITIAL_COURSE_DATA
  ELSE [INITIAL_COURSE_DATA EXCEPT
          !.trainerName = saved[1].trainerName, !.trainerTitle = saved[1].trainerTitle,
          !.trainerBio = saved[1].trainerBio, !.location = saved[1].location]

\* getInitialData; saved is localStorage 'hrdf_user_defaults', t is Date.now().
getInitialData(saved, t) ==
  [SpreadDefaults(saved) EXCEPT
     !.learningOutcomes = << [id |-> <<"lo", t>>, text |-> ""] >>,
     !.modules = << [id |-> <<"mod", t>>, title |-> "Module 1",
                     subTopics |-> << [id |-> <<"sub", t>>, text |-> ""] >>] >>,
     !.reviewQuestions = << [id |-> <<"rv", t>>, question |-> ""] >>]

\* getInitialData with no saved defaults.
GetInitialData(t) == getInitialData(<< >>, t)

\* ------------------------------------------------- geminiService wrappers
AiKinds == {"quickStart", "generateModules", "autoFillSessionPlan", "autoGenerateQuestions"}

\* The payloads the schema-constrained service returns, one per schema.
CourseStructurePayload ==
  [courseTitle |-> <<"G">>, duration |-> "1 Day", iceBreaker |-> "ice",
   learningOutcomes |-> <<"LO1">>,
   modules |-> << [title |-> "M1", subTopics |-> <<"1.1 S1">>] >>]
ModulesPayload == << [title |-> "M1", subTopics |-> <<"1.1 S1">>] >>
SessionPlanPayload ==
  << [module |-> "M1", learningPoints |-> <<"1.1 S1">>, resources |-> "PPT",
      method |-> "Lecture", duration |-> "30 mins", slideNo |-> "1-5"] >>
QuestionsPayload == <<"Q1">>

PayloadOf(kind) ==
  CASE kind = "quickStart" -> CourseStructurePayload
    [] kind = "generateModules" -> ModulesPayload
    [] kind = "autoFillSessionPlan" -> SessionPlanPayload
    [] OTHER -> QuestionsPayload

\* text.replace(/^(Module\s+)?\d+(\.\d+)+\s*[:.-]?\s*/i, '').trim()
cleanSubTopicText(text) == IF text = "1.1 S1" THEN "S1" ELSE text

MapModules(ms, t) ==
  [idx \in 1..Len(ms) |->
     [id |-> <<"mod", t, idx - 1>>, title |-> ms[idx].title,
      subTopics |-> [sIdx \in 1..Len(ms[idx].subTopics) |->
                       [id |-> <<"sub", t, idx - 1, sIdx - 1>>,
                        text |-> cleanSubTopicText(ms[idx].subTopics[sIdx])]]]]

\* setData(prev => ({ ...prev, ...generated })) with generateCourseStructure's result
ApplyCourseStructure(prev, p, t) ==
  [prev EXCEPT !.courseTitle = p.courseTitle, !.duration = p.duration,
               !.iceBreaker = p.iceBreaker,
               !.learningOutcomes = [idx \in 1..Len(p.learningOutcomes) |->
                                       [id |-> <<"lo", t, idx - 1>>,
                                        text |-> p.learningOutcomes[idx]]],
               !.modules = MapModules(p.modules, t)]

\* setData(prev => ({ ...prev, modules: newModules }))
ApplyModules(prev, p, t) == [prev EXCEPT !.modules = MapModules(p, t)]

\* setData(prev => ({ ...prev, sessionPlan: plan }))
ApplySessionPlan(prev, p, t) ==
  [prev EXCEPT !.sessionPlan =
     [idx \in 1..Len(p) |->
        [id |-> <<"sp", t, idx - 1>>, module |-> p[idx].module,
         learningPoints |-> p[idx].learningPoints, resources |-> p[idx].resources,
         method |-> p[idx].method, duration |-> p[idx].duration,
         slideNo |-> p[idx].slideNo]]]

\* setData(prev => ({ ...prev, reviewQuestions: qs.map((q, i) => ({ id: `gen-${i}`, question: q })) }))
ApplyQuestions(prev, p) ==
  [prev EXCEPT !.reviewQuestions =
     [idx \in 1..Len(p) |-> [id |-> <<"gen", idx - 1>>, question |-> p[idx]]]]

\* A faulty variant of the completions: the document is also stamped with
\* the time of the completion.
ApplyGeneratedStamped(kind, prev, p, t) ==
  [(CASE kind = "quickStart" -> ApplyCourseStructure(prev, p, t)
      [] kind = "generateModules" -> ApplyModules(prev, p, t)
      [] kind = "autoFillSessionPlan" -> ApplySessionPlan(prev, p, t)
      [] OTHER -> ApplyQuestions(prev, p)) EXCEPT !.lastModified = t]

ApplyGenerated(kind, prev, p, t) ==
  CASE kind = "quickStart" -> ApplyCourseStructure(prev, p, t)
    [] kind = "generateModules" -> ApplyModules(prev, p, t)
    [] kind = "autoFillSessionPlan" -> ApplySessionPlan(prev, p, t)
    [] OTHER -> ApplyQuestions(prev, p)

AiFailureAlert(kind) ==
  CASE kind = "quickStart" -> "Failed to generate course structure. Check your API Key or try again."
    [] kind = "generateModules" -> "Failed to generate modules. Check your API Key or try again."
    [] kind = "autoFillSessionPlan" -> "Failed to generate session plan. Check your API Key or try again."
    [] OTHER -> "Failed to generate questions. Check your API Key or try again."

\* ------------------------------------------------- the IndexedDB helper
\* The object store 'courses' (keyPath 'id'): a set of records.

\* A faulty variant of the write: the record is added beside the old one.
saveCourseToDBAdd(st, course) == st \cup {course}

\* store.put(course): the record under course.id is replaced, or added.
saveCourseToDB(st, course) == {r \in st : r.id # course.id} \cup {course}

\* store.delete(id)
deleteCourseFromDB(st, id) == {r \in st : r.id # id}

\* store.getAll(): the records in ascending key order.
RECURSIVE KeyOrder(_)
KeyOrder(st) ==
  IF st = {} THEN << >>
  ELSE LET r == CHOOSE x \in st : \A y \in st : x.id <= y.id
       IN <<r>> \o KeyOrder(st \ {r})

\* (x.lastModified || 0)
SortKey(r) == IF r.lastModified = NoTime THEN 0 ELSE r.lastModified

\* A faulty variant of the comparator: a - b, oldest first.
CompareCoursesAscending(a, b) == SortKey(a) - SortKey(b)

\* The comparator of results.sort: (b.lastModified || 0) - (a.lastModified || 0)
CompareCourses(a, b) == SortKey(b) - SortKey(a)

\* Array.prototype.sort (stable) as an insertion sort with that comparator:
\* r goes before the first element the comparator puts after it.
RECURSIVE InsertSorted(_, _)
InsertSorted(sorted, r) ==
  IF sorted = << >> THEN <<r>>
  ELSE IF CompareCourses(Head(sorted), r) > 0
         THEN <<r>> \o sorted
         ELSE <<Head(sorted)>> \o InsertSorted(Tail(sorted), r)

RECURSIVE SortCourses(_)
SortCourses(results) ==
  IF results = << >> THEN << >>
  ELSE InsertSorted(SortCourses(SubSeq(results, 1, Len(results) - 1)),
                    results[Len(results)])

getAllCourses(st) == SortCourses(KeyOrder(st))

\* ---------------------------------------------------------------- state
VARIABLES
  now,            \* Date.now() when it was last read
  nextId,         \* uuids drawn so far by crypto.randomUUID()
  currentStep, data, isGenerating, topicPrompt,
  showSavedModal, savedCourses, isLoadingSaved, saveStatus,
  saveTimers,     \* pending setTimeout(() => setSaveStatus('idle'), 2000)
  storedKey,      \* localStorage 'gemini_api_key'
  envKey,         \* process.env.API_KEY
  store,          \* the IndexedDB object store
  gens,           \* AI actions in flight: [kind, sg]
  pending,        \* persistence requests in flight: [op, course, id]
  alerts,         \* the alert() on screen: the messages shown by the last step
  latest,         \* history: per key, the last record put and not deleted since
  ops,            \* persistence operations started so far
  requests,       \* AI requests started so far
  sg,             \* one safeGenerate invocation on its own (SpecGen)
  sgLog,          \* history of that invocation: calls, outcomes, waits
  userDefaults,   \* the default-profile fields of the Settings form
  storedDefaults, \* localStorage 'hrdf_user_defaults': << >> or <<profile>>
  download,       \* the file the last export handed to the browser, if any
  exported,       \* history: the course whose export button was clicked last
  initialCourseData, \* what the module-level object INITIAL_COURSE_DATA holds
  aliased         \* the items of data with the constant's ids are its objects

vars == <<now, nextId, currentStep, data, isGenerating, topicPrompt,
          showSavedModal, savedCourses, isLoadingSaved, saveStatus, saveTimers,
          storedKey, envKey, store, gens, pending, alerts, latest, ops,
          requests, sg, sgLog, userDefaults, storedDefaults, download,
          exported, initialCourseData, aliased>>

appVars == <<now, nextId, currentStep, data, isGenerating, topicPrompt,
             showSavedModal, savedCourses, isLoadingSaved, saveStatus, saveTimers,
             storedKey, envKey, store, gens, pending, alerts, latest, ops,
             requests, userDefaults, storedDefaults, download, exported,
             initialCourseData, aliased>>

Keys == 1..MaxOps

SgLogIdle == [calls |-> 0, outcomes |-> << >>, waits |-> << >>, elapsed |-> 0]

\* The page after its first render, given what localStorage, the build
\* environment and the browser's database hold from earlier sessions.
\* The page showing the document doc at time 1, nothing in flight.
InitDoc(stored, env, courses, defaults, doc) ==
  /\ now = 1
  /\ nextId = 0
  /\ currentStep = 0
  /\ data = doc
  /\ isGenerating = FALSE
  /\ topicPrompt = ""
  /\ showSavedModal = FALSE
  /\ savedCourses = << >>
  /\ isLoadingSaved = FALSE
  /\ saveStatus = "idle"
  /\ saveTimers = 0
  /\ storedKey = stored
  /\ envKey = env
  /\ store = courses
  /\ gens = << >>
  /\ pending = << >>
  /\ alerts = << >>
  /\ latest = [k \in Keys |-> IF \E r \in courses : r.id = k
                                   THEN <<CHOOSE r \in courses : r.id = k>> ELSE << >>]
  /\ ops = 0
  /\ requests = 0
  /\ sg = SgIdle
  /\ sgLog = SgLogIdle
  /\ userDefaults = IF defaults = << >> THEN BlankDefaults ELSE defaults[1]
  /\ storedDefaults = defaults
  /\ download = << >>
  /\ exported = << >>
  /\ initialCourseData = INITIAL_COURSE_DATA
  /\ aliased = FALSE

\* The page after its first render: useState(getInitialData)
InitPage(stored, env, courses, defaults) ==
  InitDoc(stored, env, courses, defaults, getInitialData(defaults, 1))

\* First visit: nothing saved in Settings yet.
InitState(stored, env, courses) == InitPage(stored, env, courses, << >>)

InitWith(stored, env) == InitState(stored, env, {})

Init == InitWith(None, None)

RemoveAt(seq, k) == SubSeq(seq, 1, k - 1) \o SubSeq(seq, k + 1, Len(seq))

\* alert() blocks the page: nothing else runs until it is dismissed.
NoAlert == alerts = << >>

DismissAlert ==
  /\ alerts # << >>
  /\ alerts' = << >>
  /\ UNCHANGED <<now, nextId, currentStep, data, isGenerating, topicPrompt,
                 showSavedModal, savedCourses, isLoadingSaved, saveStatus, saveTimers,
                 storedKey, envKey, store, gens, pending, latest, ops, requests, sg,
                 sgLog, userDefaults, storedDefaults, download, exported,
                 initialCourseData, aliased>>

\* ------------------------------------------------------------ navigation
\* The step pills, Back and Next: setCurrentStep(idx)
SetCurrentStep ==
  \E idx \in 0..(NumSteps - 1) :
    /\ NoAlert
    /\ idx # currentStep
    /\ currentStep' = idx
    /\ UNCHANGED <<now, nextId, data, isGenerating, topicPrompt, showSavedModal,
                   savedCourses, isLoadingSaved, saveStatus, saveTimers, storedKey,
                   envKey, store, gens, pending, alerts, latest, ops, requests, sg,
                   sgLog, userDefaults, storedDefaults, download, exported,
                   initialCourseData, aliased>>

\* The topic input of the AI Quick Builder (step 0): setTopicPrompt
SetTopicPrompt ==
  \E v \in {"", "topic"} :
    /\ NoAlert
    /\ currentStep = 0
    /\ v # topicPrompt
    /\ topicPrompt' = v
    /\ UNCHANGED <<now, nextId, currentStep, data, isGenerating, showSavedModal,
                   savedCourses, isLoadingSaved, saveStatus, saveTimers, storedKey,
                   envKey, store, gens, pending, alerts, latest, ops, requests, sg,
                   sgLog, userDefaults, storedDefaults, download, exported,
                   initialCourseData, aliased>>

\* handleInputChange('courseTitle', value) on the General Info step
handleInputChange ==
  \E v \in {EmptyTitle, <<"T">>} :
    /\ NoAlert
    /\ currentStep = 0
    /\ v # data.courseTitle
    /\ data' = [data EXCEPT !.courseTitle = v]
    /\ UNCHANGED <<now, nextId, currentStep, isGenerating, topicPrompt, showSavedModal,
                   savedCourses, isLoadingSaved, saveStatus, saveTimers, storedKey,
                   envKey, store, gens, pending, alerts, latest, ops, requests, sg,
                   sgLog, userDefaults, storedDefaults, download, exported,
                   initialCourseData, aliased>>

\* What the API-key field of the Settings form holds: nothing, a blank, a
\* key, a key pasted with blanks around it.
KeyField == {"", " ", "k1", " k1 "}

\* customApiKey.trim()
Trim(s) ==
  CASE s = " " -> ""
    [] s = " k1 " -> "k1"
    [] OTHER -> s

\* A faulty variant of the submit handler: the key is stored as typed.
SaveSettingsUntrimmed(customApiKey) ==
  /\ NoAlert
  /\ storedDefaults' = <<userDefaults>>
  /\ storedKey' = IF Trim(customApiKey) # "" THEN customApiKey ELSE None
  /\ alerts' = <<"Settings saved!">>
  /\ UNCHANGED <<now, nextId, currentStep, data, isGenerating, topicPrompt,
                 showSavedModal, savedCourses, isLoadingSaved, saveStatus, saveTimers,
                 envKey, store, gens, pending, latest, ops, requests, sg, sgLog,
                 userDefaults, download, exported, initialCourseData, aliased>>

\* handleSaveSettings: the profile fields of the form stored as the defaults;
\* the key field trimmed and stored, or the stored key removed
SaveSettings(customApiKey) ==
  /\ NoAlert
  /\ storedDefaults' = <<userDefaults>>
  /\ storedKey' = IF Trim(customApiKey) # "" THEN Trim(customApiKey) ELSE None
  /\ alerts' = <<"Settings saved!">>
  /\ UNCHANGED <<now, nextId, currentStep, data, isGenerating, topicPrompt,
                 showSavedModal, savedCourses, isLoadingSaved, saveStatus, saveTimers,
                 envKey, store, gens, pending, latest, ops, requests, sg, sgLog,
                 userDefaults, download, exported, initialCourseData, aliased>>

handleSaveSettings == \E customApiKey \in KeyField : SaveSettings(customApiKey)

\* Date.now(): the clock has not gone back since it was last read.
Clock == now..MaxTime

\* ------------------------------------------------------------ AI actions
\* A faulty variant of the buttons: the questions button lacks
\* disabled={isGenerating}.
AiButtonEnabledUnguarded(kind) ==
  CASE kind = "quickStart" ->
         currentStep = 0 /\ ~(isGenerating \/ topicPrompt = "")
    [] kind = "generateModules" -> currentStep = 2 /\ ~isGenerating
    [] kind = "autoFillSessionPlan" -> currentStep = 3 /\ ~isGenerating
    [] OTHER -> currentStep = 4

\* Where each AI button is rendered and when it is not disabled.
AiButtonEnabled(kind) ==
  CASE kind = "quickStart" ->
         currentStep = 0 /\ ~(isGenerating \/ topicPrompt = "")
    [] kind = "generateModules" -> currentStep = 2 /\ ~isGenerating
    [] kind = "autoFillSessionPlan" -> currentStep = 3 /\ ~isGenerating
    [] OTHER -> currentStep = 4 /\ ~isGenerating

\* A faulty variant of the early returns: generateModules does not look at
\* the learning outcomes.
AiPreconditionTitleOnly(kind) ==
  CASE kind = "quickStart" -> topicPrompt # ""
    [] kind = "generateModules" -> ~(data.courseTitle = EmptyTitle)
    [] kind = "autoFillSessionPlan" -> ~(Len(data.modules) = 0)
    [] OTHER -> TRUE

\* The early returns of the handlers, with the alert they show (if any).
AiPrecondition(kind) ==
  CASE kind = "quickStart" -> topicPrompt # ""
    [] kind = "generateModules" ->
         ~(Len(data.learningOutcomes) = 0 \/ data.courseTitle = EmptyTitle)
    [] kind = "autoFillSessionPlan" -> ~(Len(data.modules) = 0)
    [] OTHER -> TRUE

AiPreconditionAlert(kind) ==
  CASE kind = "generateModules" ->
         <<"Please ensure you have a Course Title and Learning Outcomes defined.">>
    [] kind = "autoFillSessionPlan" -> <<"Please define modules first.">>
    [] OTHER -> << >>

\* A faulty variant of the failure path: setCurrentStep(1) moved to finally.
AiFailedAdvances(kind, rest) ==
  /\ alerts' = <<AiFailureAlert(kind)>>
  /\ isGenerating' = FALSE
  /\ gens' = rest
  /\ currentStep' = IF kind = "quickStart" THEN 1 ELSE currentStep
  /\ UNCHANGED <<data, now>>

\* A faulty variant of the failure path: no finally block, so the flag is
\* reset on success only.
AiFailedStillGenerating(kind, rest) ==
  /\ alerts' = <<AiFailureAlert(kind)>>
  /\ isGenerating' = (rest # << >> \/ isGenerating)
  /\ gens' = rest
  /\ UNCHANGED <<data, currentStep, now>>

\* catch (e) { alert(...) } finally { setIsGenerating(false) }
AiFailed(kind, rest) ==
  /\ alerts' = <<AiFailureAlert(kind)>>
  /\ isGenerating' = FALSE
  /\ gens' = rest
  /\ UNCHANGED <<data, currentStep, now>>

\* setData(prev => ...); quickStart also setCurrentStep(1); finally as above
AiSucceeded(kind, payload, rest) ==
  /\ \E t \in Clock :
       /\ now' = t
       /\ data' = ApplyGenerated(kind, data, payload, t)
  /\ currentStep' = IF kind = "quickStart" THEN 1 ELSE currentStep
  /\ alerts' = << >>
  /\ isGenerating' = FALSE
  /\ gens' = rest

\* A click on an AI button: the handler up to its first await.
AiAction(kind) ==
  /\ NoAlert
  /\ AiButtonEnabled(kind)
  /\ requests < MaxRequests
  /\ IF ~AiPrecondition(kind)
       THEN /\ alerts' = AiPreconditionAlert(kind)
            /\ UNCHANGED <<data, currentStep, isGenerating, gens, requests, now>>
       ELSE LET s == SafeGenerateStart(storedKey, envKey) IN
            IF s.pc = "threw"
              THEN AiFailed(kind, gens) /\ UNCHANGED requests
              ELSE /\ isGenerating' = TRUE
                   /\ gens' = Append(gens, [kind |-> kind, sg |-> s])
                   /\ requests' = requests + 1
                   /\ UNCHANGED <<data, currentStep, alerts, now>>
  /\ UNCHANGED <<nextId, topicPrompt, showSavedModal, savedCourses, isLoadingSaved,
                 saveStatus, saveTimers, storedKey, envKey, store, pending, latest,
                 ops, sg, sgLog, userDefaults, storedDefaults, download, exported,
                 initialCourseData, aliased>>

quickStart == AiAction("quickStart")
generateModules == AiAction("generateModules")
autoFillSessionPlan == AiAction("autoFillSessionPlan")
autoGenerateQuestions == AiAction("autoGenerateQuestions")

\* The awaited generate... call of request k settles: safeGenerate has run to
\* its end (its attempts and waits are local to it) and returned a payload.
AiResolves ==
  \E k \in 1..Len(gens) :
    \E s \in SafeGenerateEnds(gens[k].sg, PayloadOf(gens[k].kind)) :
      /\ NoAlert
      /\ s.pc = "returned"
      /\ AiSucceeded(gens[k].kind, s.value, RemoveAt(gens, k))
      /\ UNCHANGED <<nextId, topicPrompt, showSavedModal, savedCourses, isLoadingSaved,
                     saveStatus, saveTimers, storedKey, envKey, store, pending, latest,
                     ops, requests, sg, sgLog, userDefaults, storedDefaults, download,
                     exported, initialCourseData, aliased>>

\* The same call ends with safeGenerate throwing.
AiRejects ==
  \E k \in 1..Len(gens) :
    \E s \in SafeGenerateEnds(gens[k].sg, PayloadOf(gens[k].kind)) :
      /\ NoAlert
      /\ s.pc = "threw"
      /\ AiFailed(gens[k].kind, RemoveAt(gens, k))
      /\ UNCHANGED <<nextId, topicPrompt, showSavedModal, savedCourses, isLoadingSaved,
                     saveStatus, saveTimers, storedKey, envKey, store, pending, latest,
                     ops, requests, sg, sgLog, userDefaults, storedDefaults, download,
                     exported, initialCourseData, aliased>>

\* --------------------------------------------------- safeGenerate on its own
\* Every entry into "await" is one generateContent call.
Called(s, log) == IF s.pc = "await" THEN [log EXCEPT !.calls = log.calls + 1] ELSE log

SgInvoke ==
  /\ ~SgRunning(sg)
  /\ sg' = SafeGenerateStart(storedKey, envKey)
  /\ sgLog' = Called(sg', SgLogIdle)
  /\ UNCHANGED appVars

SgSettles ==
  \E outcome \in AttemptOutcomes :
    /\ sg.pc = "await"
    /\ sg' = SafeGenerateResponse(sg, outcome, QuestionsPayload)
    /\ sgLog' = Called(sg',
         [sgLog EXCEPT !.outcomes = Append(sgLog.outcomes, outcome),
                       !.waits = IF sg'.pc = "backoff"
                                   THEN Append(sgLog.waits, sg'.remaining)
                                   ELSE sgLog.waits,
                       !.elapsed = 0])
    /\ UNCHANGED appVars

SgTick ==
  /\ sg.pc = "backoff"
  /\ sg.remaining > 0
  /\ sg' = SafeGenerateTick(sg)
  /\ sgLog' = [sgLog EXCEPT !.elapsed = sgLog.elapsed + 1]
  /\ UNCHANGED appVars

SgFires ==
  /\ sg.pc = "backoff"
  /\ sg.remaining = 0
  /\ sg' = SafeGenerateResume(sg)
  /\ sgLog' = Called(sg', sgLog)
  /\ UNCHANGED appVars

\* ------------------------------------------------------------ persistence
Req(op, course, id) == [op |-> op, course |-> course, id |-> id]

\* fetchSavedCourses up to its await: setIsLoadingSaved(true); getAllCourses()
FetchRequest == Req("getAll", INITIAL_COURSE_DATA, NoId)

\* id: x.id || crypto.randomUUID()
IdOrFresh(id) == IF id # NoId THEN id ELSE nextId + 1

\* A faulty variant of the snapshot: id: crypto.randomUUID(), whatever data.id is.
CourseToSaveFreshId(d, t) == [d EXCEPT !.id = nextId + 1, !.lastModified = t]

\* const courseToSave = { ...data, id: data.id || crypto.randomUUID(), lastModified: Date.now() }
CourseToSave(d, t) == [d EXCEPT !.id = IdOrFresh(d.id), !.lastModified = t]

\* The Save Draft button (disabled while saveStatus is 'saving'): handleSaveDraft
\* up to its await.
handleSaveDraft ==
  /\ NoAlert
  /\ saveStatus # "saving"
  /\ ops < MaxOps
  /\ \E t \in Clock :
       /\ now' = t
       /\ pending' = Append(pending, Req("save", CourseToSave(data, t), NoId))
  /\ saveStatus' = "saving"
  /\ nextId' = IF data.id = NoId THEN nextId + 1 ELSE nextId
  /\ ops' = ops + 1
  /\ UNCHANGED <<currentStep, data, isGenerating, topicPrompt, showSavedModal,
                 savedCourses, isLoadingSaved, saveTimers, storedKey, envKey, store,
                 gens, alerts, latest, requests, sg, sgLog, userDefaults,
                 storedDefaults, download, exported, initialCourseData, aliased>>

\* saveCourseToDB resolved: setData(courseToSave); setSaveStatus('saved'); setTimeout(...)
SaveResolves ==
  \E k \in 1..Len(pending) :
    /\ NoAlert
    /\ pending[k].op = "save"
    /\ store' = saveCourseToDB(store, pending[k].course)
    /\ latest' = [latest EXCEPT ![pending[k].course.id] = <<pending[k].course>>]
    /\ data' = pending[k].course
    /\ saveStatus' = "saved"
    /\ saveTimers' = saveTimers + 1
    /\ pending' = RemoveAt(pending, k)
    /\ UNCHANGED <<now, nextId, currentStep, isGenerating, topicPrompt, showSavedModal,
                   savedCourses, isLoadingSaved, storedKey, envKey, gens, alerts, ops,
                   requests, sg, sgLog, userDefaults, storedDefaults, download,
                   exported, initialCourseData, aliased>>

\* A faulty variant of the failure path: setData(courseToSave) placed before
\* the await, so that the snapshot is the document when the write fails.
SaveRejectsAfterSetData ==
  \E k \in 1..Len(pending) :
    /\ NoAlert
    /\ pending[k].op = "save"
    /\ data' = pending[k].course
    /\ saveStatus' = "idle"
    /\ alerts' = <<"Failed to save draft.">>
    /\ pending' = RemoveAt(pending, k)
    /\ UNCHANGED <<now, nextId, currentStep, isGenerating, topicPrompt, showSavedModal,
                   savedCourses, isLoadingSaved, saveTimers, storedKey, envKey, store,
                   gens, latest, ops, requests, sg, sgLog, userDefaults,
                   storedDefaults, download, exported, initialCourseData, aliased>>

\* saveCourseToDB rejected: setSaveStatus('idle'); alert("Failed to save draft.")
SaveRejects ==
  \E k \in 1..Len(pending) :
    /\ NoAlert
    /\ pending[k].op = "save"
    /\ saveStatus' = "idle"
    /\ alerts' = <<"Failed to save draft.">>
    /\ pending' = RemoveAt(pending, k)
    /\ UNCHANGED <<now, nextId, currentStep, data, isGenerating, topicPrompt,
                   showSavedModal, savedCourses, isLoadingSaved, saveTimers, storedKey,
                   envKey, store, gens, latest, ops, requests, sg, sgLog, userDefaults,
                   storedDefaults, download, exported, initialCourseData, aliased>>

\* setTimeout(() => setSaveStatus('idle'), 2000) fires
SaveTimerFires ==
  /\ NoAlert
  /\ saveTimers > 0
  /\ saveTimers' = saveTimers - 1
  /\ saveStatus' = "idle"
  /\ UNCHANGED <<now, nextId, currentStep, data, isGenerating, topicPrompt,
                 showSavedModal, savedCourses, isLoadingSaved, storedKey, envKey,
                 store, gens, pending, alerts, latest, ops, requests, sg, sgLog,
                 userDefaults, storedDefaults, download, exported, initialCourseData,
                 aliased>>

\* My Courses: setShowSavedModal(true), whose effect calls fetchSavedCourses().
\* The modal lies over the page without trapping keyboard focus: the page's
\* buttons stay operable while it is shown.
OpenSavedModal ==
  /\ NoAlert
  /\ ~showSavedModal
  /\ ops < MaxOps
  /\ showSavedModal' = TRUE
  /\ isLoadingSaved' = TRUE
  /\ pending' = Append(pending, FetchRequest)
  /\ ops' = ops + 1
  /\ UNCHANGED <<now, nextId, currentStep, data, isGenerating, topicPrompt,
                 savedCourses, saveStatus, saveTimers, storedKey, envKey, store, gens,
                 alerts, latest, requests, sg, sgLog, userDefaults, storedDefaults,
                 download, exported, initialCourseData, aliased>>

\* The X of the modal: setShowSavedModal(false)
CloseSavedModal ==
  /\ NoAlert
  /\ showSavedModal
  /\ showSavedModal' = FALSE
  /\ UNCHANGED <<now, nextId, currentStep, data, isGenerating, topicPrompt,
                 savedCourses, isLoadingSaved, saveStatus, saveTimers, storedKey,
                 envKey, store, gens, pending, alerts, latest, ops, requests, sg,
                 sgLog, userDefaults, storedDefaults, download, exported,
                 initialCourseData, aliased>>

\* getAllCourses resolved: setSavedCourses(courses); finally setIsLoadingSaved(false)
FetchResolves ==
  \E k \in 1..Len(pending) :
    /\ NoAlert
    /\ pending[k].op = "getAll"
    /\ savedCourses' = getAllCourses(store)
    /\ isLoadingSaved' = FALSE
    /\ pending' = RemoveAt(pending, k)
    /\ UNCHANGED <<now, nextId, currentStep, data, isGenerating, topicPrompt,
                   showSavedModal, saveStatus, saveTimers, storedKey, envKey, store,
                   gens, alerts, latest, ops, requests, sg, sgLog, userDefaults,
                   storedDefaults, download, exported, initialCourseData, aliased>>

\* getAllCourses rejected: console.error only; finally setIsLoadingSaved(false)
FetchRejects ==
  \E k \in 1..Len(pending) :
    /\ NoAlert
    /\ pending[k].op = "getAll"
    /\ isLoadingSaved' = FALSE
    /\ pending' = RemoveAt(pending, k)
    /\ UNCHANGED <<now, nextId, currentStep, data, isGenerating, topicPrompt,
                   showSavedModal, savedCourses, saveStatus, saveTimers, storedKey,
                   envKey, store, gens, alerts, latest, ops, requests, sg, sgLog,
                   userDefaults, storedDefaults, download, exported, initialCourseData,
                   aliased>>

\* The rows of the saved-courses list are rendered when the modal is shown and
\* the list is not loading.
ListedCourses ==
  IF showSavedModal /\ ~isLoadingSaved
    THEN {savedCourses[n] : n \in 1..Len(savedCourses)}
    ELSE {}

\* A click on a row: handleLoadCourse(course)
handleLoadCourse ==
  \E course \in ListedCourses :
    /\ NoAlert
    /\ data' = course
    /\ aliased' = FALSE
    /\ showSavedModal' = FALSE
    /\ currentStep' = 0
    /\ UNCHANGED <<now, nextId, isGenerating, topicPrompt, savedCourses,
                   isLoadingSaved, saveStatus, saveTimers, storedKey, envKey, store,
                   gens, pending, alerts, latest, ops, requests, sg, sgLog,
                   userDefaults, storedDefaults, download, exported, initialCourseData>>

\* "+ Start New Blank Draft" in the modal: setData(INITIAL_COURSE_DATA). The
\* document is the module-level object itself, with whatever it holds now.
StartNewBlankDraft ==
  /\ NoAlert
  /\ showSavedModal
  /\ data' = initialCourseData
  /\ aliased' = TRUE
  /\ showSavedModal' = FALSE
  /\ currentStep' = 0
  /\ UNCHANGED <<now, nextId, isGenerating, topicPrompt, savedCourses, isLoadingSaved,
                 saveStatus, saveTimers, storedKey, envKey, store, gens, pending,
                 alerts, latest, ops, requests, sg, sgLog, userDefaults,
                 storedDefaults, download, exported, initialCourseData>>

\* The trash button of a row, confirm() answered OK: handleDeleteCourse up to
\* its await. (Answered Cancel, the handler does nothing.)
handleDeleteCourse ==
  \E course \in ListedCourses :
    /\ NoAlert
    /\ ops < MaxOps
    /\ pending' = Append(pending, Req("delete", INITIAL_COURSE_DATA, course.id))
    /\ ops' = ops + 1
    /\ UNCHANGED <<now, nextId, currentStep, data, isGenerating, topicPrompt,
                   showSavedModal, savedCourses, isLoadingSaved, saveStatus,
                   saveTimers, storedKey, envKey, store, gens, alerts, latest,
                   requests, sg, sgLog, userDefaults, storedDefaults, download,
                   exported, initialCourseData, aliased>>

\* deleteCourseFromDB resolved: fetchSavedCourses()
DeleteResolves ==
  \E k \in 1..Len(pending) :
    /\ NoAlert
    /\ pending[k].op = "delete"
    /\ store' = deleteCourseFromDB(store, pending[k].id)
    /\ latest' = [latest EXCEPT ![pending[k].id] = << >>]
    /\ isLoadingSaved' = TRUE
    /\ pending' = Append(RemoveAt(pending, k), FetchRequest)
    /\ UNCHANGED <<now, nextId, currentStep, data, isGenerating, topicPrompt,
                   showSavedModal, savedCourses, saveStatus, saveTimers, storedKey,
                   envKey, gens, alerts, ops, requests, sg, sgLog, userDefaults,
                   storedDefaults, download, exported, initialCourseData, aliased>>

\* deleteCourseFromDB rejected: console.error only
DeleteRejects ==
  \E k \in 1..Len(pending) :
    /\ NoAlert
    /\ pending[k].op = "delete"
    /\ pending' = RemoveAt(pending, k)
    /\ UNCHANGED <<now, nextId, currentStep, data, isGenerating, topicPrompt,
                   showSavedModal, savedCourses, isLoadingSaved, saveStatus,
                   saveTimers, storedKey, envKey, store, gens, alerts, latest, ops,
                   requests, sg, sgLog, userDefaults, storedDefaults, download,
                   exported, initialCourseData, aliased>>

\* A course file written by hand: no id, no lastModified.
ForeignCourse == [INITIAL_COURSE_DATA EXCEPT !.courseTitle = <<"F">>]

\* (json.courseTitle || "Imported Course") + " (Imported)"
ImportedTitle(title) ==
  Append(IF title = EmptyTitle THEN <<"Imported Course">> ELSE title, " (Imported)")

\* const importedCourse = { ...json, id: json.id || crypto.randomUUID(),
\*   lastModified: Date.now(), courseTitle: (...) + " (Imported)" }
ImportedCourse(json, t) ==
  [json EXCEPT !.id = IdOrFresh(json.id), !.lastModified = t,
               !.courseTitle = ImportedTitle(json.courseTitle)]

\* A JSON file that is no course: it has neither modules nor sessionPlan.
NoCourseFile == [id |-> NoId, lastModified |-> NoTime, courseTitle |-> <<"N">>]

\* A faulty variant of the import: the check of modules and sessionPlan is
\* missing, and a file that is no course is stored like a course.
handleFileImportUnchecked(files) ==
  /\ NoAlert
  /\ showSavedModal
  /\ \E kind \in {"garbage", "nocourse", "course"} :
       IF kind = "garbage"
         THEN /\ alerts' = <<"Failed to parse JSON file.">>
              /\ UNCHANGED <<pending, nextId, ops, now>>
       ELSE \E json \in (IF kind = "nocourse" THEN {NoCourseFile} ELSE files), t \in Clock :
              /\ ops < MaxOps
              /\ now' = t
              /\ pending' = Append(pending, Req("import", ImportedCourse(json, t), NoId))
              /\ nextId' = IF json.id = NoId THEN nextId + 1 ELSE nextId
              /\ ops' = ops + 1
              /\ UNCHANGED alerts
  /\ UNCHANGED <<currentStep, data, isGenerating, topicPrompt, showSavedModal,
                 savedCourses, isLoadingSaved, saveStatus, saveTimers, storedKey,
                 envKey, store, gens, latest, requests, sg, sgLog, userDefaults,
                 storedDefaults, download, exported, initialCourseData, aliased>>

\* handleFileImport and reader.onload up to the await of saveCourseToDB; the
\* file input is part of the saved-courses modal. The chosen file holds text
\* that is no JSON, JSON that is no course (no modules or no sessionPlan), or
\* one of the courses `files`.
handleFileImport(files) ==
  /\ NoAlert
  /\ showSavedModal
  /\ \E kind \in {"garbage", "nocourse", "course"} :
       IF kind = "garbage"
         THEN /\ alerts' = <<"Failed to parse JSON file.">>
              /\ UNCHANGED <<pending, nextId, ops, now>>
       ELSE IF kind = "nocourse"
         THEN /\ alerts' = <<"Invalid course file format.">>
              /\ UNCHANGED <<pending, nextId, ops, now>>
       ELSE \E json \in files, t \in Clock :
              /\ ops < MaxOps
              /\ now' = t
              /\ pending' = Append(pending, Req("import", ImportedCourse(json, t), NoId))
              /\ nextId' = IF json.id = NoId THEN nextId + 1 ELSE nextId
              /\ ops' = ops + 1
              /\ UNCHANGED alerts
  /\ UNCHANGED <<currentStep, data, isGenerating, topicPrompt, showSavedModal,
                 savedCourses, isLoadingSaved, saveStatus, saveTimers, storedKey,
                 envKey, store, gens, latest, requests, sg, sgLog, userDefaults,
                 storedDefaults, download, exported, initialCourseData, aliased>>

\* The file was exported from a row of the saved-courses list (exportToJSON:
\* JSON.stringify of the record, which JSON.parse gives back).
ImportExportedFile == handleFileImport(ListedCourses)

ImportForeignFile == handleFileImport({ForeignCourse})

\* saveCourseToDB(importedCourse) resolved: fetchSavedCourses();
\* alert("Course imported successfully!")
ImportResolves ==
  \E k \in 1..Len(pending) :
    /\ NoAlert
    /\ pending[k].op = "import"
    /\ store' = saveCourseToDB(store, pending[k].course)
    /\ latest' = [latest EXCEPT ![pending[k].course.id] = <<pending[k].course>>]
    /\ isLoadingSaved' = TRUE
    /\ pending' = Append(RemoveAt(pending, k), FetchRequest)
    /\ alerts' = <<"Course imported successfully!">>
    /\ UNCHANGED <<now, nextId, currentStep, data, isGenerating, topicPrompt,
                   showSavedModal, savedCourses, saveStatus, saveTimers, storedKey,
                   envKey, gens, ops, requests, sg, sgLog, userDefaults,
                   storedDefaults, download, exported, initialCourseData, aliased>>

\* saveCourseToDB(importedCourse) rejected: alert("Failed to parse JSON file.")
ImportRejects ==
  \E k \in 1..Len(pending) :
    /\ NoAlert
    /\ pending[k].op = "import"
    /\ pending' = RemoveAt(pending, k)
    /\ alerts' = <<"Failed to parse JSON file.">>
    /\ UNCHANGED <<now, nextId, currentStep, data, isGenerating, topicPrompt,
                   showSavedModal, savedCourses, isLoadingSaved, saveStatus,
                   saveTimers, storedKey, envKey, store, gens, latest, ops, requests,
                   sg, sgLog, userDefaults, storedDefaults, download, exported,
                   initialCourseData, aliased>>

\* ------------------------------------------------------- specifications
\* safeGenerate alone, for every configuration of the two key sources.
InitGen ==
  \E stored \in {None, "", "k1"}, env \in {None, "envkey"} : InitWith(stored, env)

NextGen == SgInvoke \/ SgSettles \/ SgTick \/ SgFires

\* The service answers every call and every timer fires.
SpecGen ==
  InitGen /\ [][NextGen]_vars
    /\ WF_vars(SgSettles) /\ WF_vars(SgTick) /\ WF_vars(SgFires)

\* The editor and its AI actions.
NextAi ==
  \/ DismissAlert
  \/ SetCurrentStep
  \/ SetTopicPrompt
  \/ handleInputChange
  \/ handleSaveSettings
  \/ quickStart
  \/ generateModules
  \/ autoFillSessionPlan
  \/ autoGenerateQuestions
  \/ AiResolves
  \/ AiRejects

SpecAi == Init /\ [][NextAi]_vars

\* The awaited call of a request has settled and its continuation runs: the
\* request leaves gens, by success or by failure (AiResolves or AiRejects).
AiSettles ==
  \E k \in 1..Len(gens) :
    /\ NoAlert
    /\ \/ AiSucceeded(gens[k].kind, PayloadOf(gens[k].kind), RemoveAt(gens, k))
       \/ AiFailed(gens[k].kind, RemoveAt(gens, k))
    /\ UNCHANGED <<nextId, topicPrompt, showSavedModal, savedCourses, isLoadingSaved,
                   saveStatus, saveTimers, storedKey, envKey, store, pending, latest,
                   ops, requests, sg, sgLog, userDefaults, storedDefaults, download,
                   exported, initialCourseData, aliased>>

\* The same with the scheduling of the page: a dialog shown by alert() is
\* dismissed, and the continuation of a call that has returned or failed is
\* a queued task, run as soon as no dialog blocks the page.
SpecAiFair ==
  Init /\ [][NextAi]_vars
    /\ WF_vars(DismissAlert) /\ SF_vars(AiSettles)

\* The first step of the editor with an API key in the settings: the AI Quick
\* Builder and Save Draft.
InitDraft == InitWith("k1", None)

NextDraft ==
  \/ DismissAlert
  \/ SetTopicPrompt
  \/ handleInputChange
  \/ quickStart
  \/ AiResolves
  \/ AiRejects
  \/ handleSaveDraft
  \/ SaveResolves
  \/ SaveRejects
  \/ SaveTimerFires

SpecDraft == InitDraft /\ [][NextDraft]_vars

\* The saved courses: drafts saved, the list, load, delete, export and import.
NextStore ==
  \/ DismissAlert
  \/ handleSaveDraft
  \/ SaveResolves
  \/ SaveRejects
  \/ SaveTimerFires
  \/ OpenSavedModal
  \/ CloseSavedModal
  \/ FetchResolves
  \/ FetchRejects
  \/ handleLoadCourse
  \/ StartNewBlankDraft
  \/ handleDeleteCourse
  \/ DeleteResolves
  \/ DeleteRejects
  \/ ImportExportedFile
  \/ ImportResolves
  \/ ImportRejects

SpecStore == Init /\ [][NextStore]_vars

\* The saved-courses list over a database left by earlier sessions; a record
\* written by another version of the page may lack lastModified.
DbTimes == {NoTime} \cup (0..MaxTime)

DbCourse(k, t) == [INITIAL_COURSE_DATA EXCEPT !.id = k, !.lastModified = t]

DbStores ==
  UNION {{{DbCourse(k, f[k]) : k \in S} : f \in [S -> DbTimes]} :
           S \in SUBSET (1..MaxRecords)}

InitDb == \E courses \in DbStores : InitState(None, None, courses)

NextDb ==
  \/ OpenSavedModal
  \/ CloseSavedModal
  \/ FetchResolves
  \/ FetchRejects

SpecDb == InitDb /\ [][NextDb]_vars

\* The whole program.
Next == NextAi \/ NextStore \/ ImportForeignFile

Spec == Init /\ [][Next]_vars


\* ------------------------------------------------------- Markdown export
\* A text is the sequence of its characters in this part; "|", "\n" and "\\"
\* are the pipe, the line feed and the backslash, and any other element is
\* ordinary text.

\* const clean = (s) => (s || '').replace(/\|/g, '\\|').replace(/\n/g, '<br>')
RECURSIVE clean(_)
clean(s) ==
  IF s = << >> THEN << >>
  ELSE (IF Head(s) = "|" THEN <<"\\", "|">>
        ELSE IF Head(s) = "\n" THEN <<"<br>">>
        ELSE <<Head(s)>>) \o clean(Tail(s))

\* Array.prototype.join
RECURSIVE Join(_, _)
Join(texts, sep) ==
  IF texts = << >> THEN << >>
  ELSE IF Len(texts) = 1 THEN texts[1]
  ELSE texts[1] \o sep \o Join(Tail(texts), sep)

\* `| ${clean(row.module)} | ${clean(row.learningPoints.join('; '))} | ... |`
TableRow(row) ==
  <<"|", " ">> \o clean(row.module) \o <<" ", "|", " ">>
    \o clean(Join(row.learningPoints, <<";", " ">>)) \o <<" ", "|", " ">>
    \o clean(row.resources) \o <<" ", "|", " ">>
    \o clean(row.method) \o <<" ", "|", " ">>
    \o clean(row.duration) \o <<" ", "|", " ">>
    \o clean(row.slideNo) \o <<" ", "|">>

\* course.sessionPlan.map(row => ...).join('\n')
TableRows(plan) == Join([i \in 1..Len(plan) |-> TableRow(plan[i])], <<"\n">>)

\* The two literal lines of the template above ${tableRows}
TableHeader ==
  <<"|", " Learning Points / Content ", "|", " Resources ", "|",
    " Method / Activities ", "|", " Duration ", "|", " Slide No. ", "|">>

TableSeparator ==
  <<"|", " ------------------------- ", "|", " :-------: ", "|",
    " ------------------- ", "|", " :------: ", "|", " :-------: ", "|">>

\* The "## Session Plan" part of the template, from the header line to the
\* blank line before the next heading.
SessionPlanSection(course) ==
  TableHeader \o <<"\n">> \o TableSeparator \o <<"\n">>
    \o TableRows(course.sessionPlan) \o <<"\n", "\n">>

\* exportToMarkdown: the Markdown button of a row of the saved-courses list.
\* The file is kept by its session-plan section; the other sections of the
\* template do not meet the table.
exportToMarkdown ==
  \E course \in ListedCourses :
    /\ NoAlert
    /\ showSavedModal
    /\ download' = << [type |-> "text/markdown", sessionPlan |-> SessionPlanSection(course)] >>
    /\ exported' = <<course>>
    /\ UNCHANGED <<now, nextId, currentStep, data, isGenerating, topicPrompt,
                   showSavedModal, savedCourses, isLoadingSaved, saveStatus,
                   saveTimers, storedKey, envKey, store, gens, pending, alerts, latest,
                   ops, requests, sg, sgLog, userDefaults, storedDefaults,
                   initialCourseData, aliased>>

\* A database holding one course whose session plan has up to two rows, with
\* cell texts of up to MaxCell characters.
Characters == {"a", "|", "\n", "\\"}

CellTexts == UNION {[1..n -> Characters] : n \in 0..MaxCell}

PlanRows ==
  {[id |-> <<"sp", 1, 0>>, module |-> m,
    learningPoints |-> SubSeq(<<m, <<"a">>>>, 1, n), resources |-> <<"P">>,
    method |-> <<"L">>, duration |-> <<"3">>, slideNo |-> s] :
     m \in CellTexts, n \in 0..2, s \in {<< >>, <<"1">>}}

SessionPlans ==
  {<< >>} \cup {<<r>> : r \in PlanRows}
          \cup {<<r, [r EXCEPT !.id = <<"sp", 1, 1>>]>> : r \in PlanRows}

InitMarkdown ==
  \E plan \in SessionPlans :
    InitState(None, None, {[DbCourse(1, 1) EXCEPT !.sessionPlan = plan]})

NextMarkdown ==
  \/ OpenSavedModal
  \/ CloseSavedModal
  \/ FetchResolves
  \/ FetchRejects
  \/ exportToMarkdown

SpecMarkdown == InitMarkdown /\ [][NextMarkdown]_vars

\* ------------------------------------------------------- list editing
\* Item ids are tuples: `lo-${t}` is <<"lo", t>>, `mod-${t}-${idx}` is
\* <<"mod", t, idx>>, Date.now().toString() is <<"", t>>, 'lo-1' is <<"lo-1">>.

Ids(list) == [i \in 1..Len(list) |-> list[i].id]

\* array.filter((_, i) => i !== index)
RemoveIndex(list, index) == RemoveAt(list, index)

\* array.findIndex(item => item.id === id), counting from 1; 0 for none (-1)
FindIndex(list, id) ==
  IF \E i \in 1..Len(list) : list[i].id = id
    THEN CHOOSE i \in 1..Len(list) :
           list[i].id = id /\ \A j \in 1..(i - 1) : list[j].id # id
    ELSE 0

\* A faulty variant of arrayMove: the two elements change places.
ArraySwap(array, from, to) ==
  IF to = 0 THEN array
  ELSE [array EXCEPT ![from] = array[to], ![to] = array[from]]

\* arrayMove of @dnd-kit/sortable, indices counting from 1 (0 for -1):
\* newArray.splice(to < 0 ? newArray.length + to : to, 0, newArray.splice(from, 1)[0])
arrayMove(array, from, to) ==
  LET at == IF to = 0 THEN Len(array) ELSE to
      rest == RemoveAt(array, from)
  IN SubSeq(rest, 1, at - 1) \o <<array[from]>> \o SubSeq(rest, at, Len(rest))

\* over is null
NoOver == << >>

\* id.startsWith(prefix)
StartsWith(id, prefix) ==
  id # << >> /\ (id[1] = prefix \/ id[1] = prefix \o "-1")

\* addOutcome (step 1)
addOutcome ==
  \E t \in Clock :
    /\ NoAlert
    /\ currentStep = 1
    /\ ops < MaxEdits
    /\ now' = t
    /\ data' = [data EXCEPT !.learningOutcomes =
                  Append(@, [id |-> <<"lo", t>>, text |-> ""])]
    /\ ops' = ops + 1
    /\ UNCHANGED <<nextId, currentStep, isGenerating, topicPrompt, showSavedModal,
                   savedCourses, isLoadingSaved, saveStatus, saveTimers, storedKey,
                   envKey, store, gens, pending, alerts, latest, requests, sg, sgLog,
                   userDefaults, storedDefaults, download, exported, initialCourseData,
                   aliased>>

\* removeOutcome(index) (step 1)
removeOutcome ==
  \E index \in 1..Len(data.learningOutcomes) :
    /\ NoAlert
    /\ currentStep = 1
    /\ data' = [data EXCEPT !.learningOutcomes = RemoveIndex(@, index)]
    /\ UNCHANGED <<now, nextId, currentStep, isGenerating, topicPrompt, showSavedModal,
                   savedCourses, isLoadingSaved, saveStatus, saveTimers, storedKey,
                   envKey, store, gens, pending, alerts, latest, ops, requests, sg,
                   sgLog, userDefaults, storedDefaults, download, exported,
                   initialCourseData, aliased>>

\* addModule (step 2); the two Date.now() reads fall in the same millisecond
addModule ==
  \E t \in Clock :
    /\ NoAlert
    /\ currentStep = 2
    /\ ops < MaxEdits
    /\ now' = t
    /\ data' = [data EXCEPT !.modules =
                  Append(@, [id |-> <<"mod", t>>, title |-> "New Module",
                             subTopics |-> << [id |-> <<"sub", t>>, text |-> ""] >>])]
    /\ ops' = ops + 1
    /\ UNCHANGED <<nextId, currentStep, isGenerating, topicPrompt, showSavedModal,
                   savedCourses, isLoadingSaved, saveStatus, saveTimers, storedKey,
                   envKey, store, gens, pending, alerts, latest, requests, sg, sgLog,
                   userDefaults, storedDefaults, download, exported, initialCourseData,
                   aliased>>

\* removeModule(index) (step 2)
removeModule ==
  \E index \in 1..Len(data.modules) :
    /\ NoAlert
    /\ currentStep = 2
    /\ data' = [data EXCEPT !.modules = RemoveIndex(@, index)]
    /\ UNCHANGED <<now, nextId, currentStep, isGenerating, topicPrompt, showSavedModal,
                   savedCourses, isLoadingSaved, saveStatus, saveTimers, storedKey,
                   envKey, store, gens, pending, alerts, latest, ops, requests, sg,
                   sgLog, userDefaults, storedDefaults, download, exported,
                   initialCourseData, aliased>>

\* Object identity. The handlers below copy the list ([...data.modules]) but
\* write into the item objects of the copy, which are the items of the
\* document; after setData(INITIAL_COURSE_DATA) those are the objects of the
\* module-level constant, recognised by its ids 'lo-1' and 'mod-1'. (The
\* handlers that rebuild a sub-topic array, the drags, are not run on a blank
\* draft in any specification here.)
IsConstantOutcome(index) ==
  aliased /\ data.learningOutcomes[index].id = <<"lo-1">>

IsConstantModule(modIndex) ==
  aliased /\ data.modules[modIndex].id = <<"mod-1">>

Texts == {"", "x"}

\* handleOutcomeChange(index, value) (step 1): newOutcomes[index].text = value
handleOutcomeChange ==
  \E index \in 1..Len(data.learningOutcomes), value \in Texts :
    /\ NoAlert
    /\ currentStep = 1
    /\ value # data.learningOutcomes[index].text
    /\ data' = [data EXCEPT !.learningOutcomes[index].text = value]
    /\ initialCourseData' =
         IF IsConstantOutcome(index)
           THEN [initialCourseData EXCEPT !.learningOutcomes[1].text = value]
           ELSE initialCourseData
    /\ UNCHANGED <<now, nextId, currentStep, isGenerating, topicPrompt, showSavedModal,
                   savedCourses, isLoadingSaved, saveStatus, saveTimers, storedKey,
                   envKey, store, gens, pending, alerts, latest, ops, requests, sg,
                   sgLog, userDefaults, storedDefaults, download, exported, aliased>>

\* handleSubTopicChange(modIndex, subIndex, value) (step 2):
\* newModules[modIndex].subTopics[subIndex].text = value
handleSubTopicChange ==
  \E modIndex \in 1..Len(data.modules), value \in Texts :
    \E subIndex \in 1..Len(data.modules[modIndex].subTopics) :
      /\ NoAlert
      /\ currentStep = 2
      /\ value # data.modules[modIndex].subTopics[subIndex].text
      /\ data' = [data EXCEPT !.modules[modIndex].subTopics[subIndex].text = value]
      /\ initialCourseData' =
           IF IsConstantModule(modIndex)
             THEN [initialCourseData EXCEPT
                     !.modules[1].subTopics[subIndex].text = value]
             ELSE initialCourseData
      /\ UNCHANGED <<now, nextId, currentStep, isGenerating, topicPrompt,
                     showSavedModal, savedCourses, isLoadingSaved, saveStatus,
                     saveTimers, storedKey, envKey, store, gens, pending, alerts,
                     latest, ops, requests, sg, sgLog, userDefaults, storedDefaults,
                     download, exported, aliased>>

\* addSubTopic(modIndex) (step 2)
addSubTopic ==
  \E modIndex \in 1..Len(data.modules), t \in Clock :
    /\ NoAlert
    /\ currentStep = 2
    /\ ops < MaxEdits
    /\ now' = t
    /\ data' = [data EXCEPT !.modules[modIndex].subTopics =
                  Append(@, [id |-> <<"sub", t>>, text |-> ""])]
    /\ initialCourseData' =
         IF IsConstantModule(modIndex)
           THEN [initialCourseData EXCEPT !.modules[1].subTopics =
                   Append(@, [id |-> <<"sub", t>>, text |-> ""])]
           ELSE initialCourseData
    /\ ops' = ops + 1
    /\ UNCHANGED <<nextId, currentStep, isGenerating, topicPrompt, showSavedModal,
                   savedCourses, isLoadingSaved, saveStatus, saveTimers, storedKey,
                   envKey, store, gens, pending, alerts, latest, requests, sg, sgLog,
                   userDefaults, storedDefaults, download, exported, aliased>>

\* "+ Add Session Row" (step 3)
addSessionRow ==
  \E t \in Clock :
    /\ NoAlert
    /\ currentStep = 3
    /\ ops < MaxEdits
    /\ now' = t
    /\ data' = [data EXCEPT !.sessionPlan =
                  Append(@, [id |-> <<"", t>>, module |-> "", learningPoints |-> << >>,
                             resources |-> "", method |-> "", duration |-> "",
                             slideNo |-> ""])]
    /\ ops' = ops + 1
    /\ UNCHANGED <<nextId, currentStep, isGenerating, topicPrompt, showSavedModal,
                   savedCourses, isLoadingSaved, saveStatus, saveTimers, storedKey,
                   envKey, store, gens, pending, alerts, latest, requests, sg, sgLog,
                   userDefaults, storedDefaults, download, exported, initialCourseData,
                   aliased>>

\* The trash button of a session row: filter(i => i.id !== item.id)
removeSessionRow ==
  \E index \in 1..Len(data.sessionPlan) :
    /\ NoAlert
    /\ currentStep = 3
    /\ data' = [data EXCEPT !.sessionPlan =
                  SelectSeq(@, LAMBDA i : i.id # data.sessionPlan[index].id)]
    /\ UNCHANGED <<now, nextId, currentStep, isGenerating, topicPrompt, showSavedModal,
                   savedCourses, isLoadingSaved, saveStatus, saveTimers, storedKey,
                   envKey, store, gens, pending, alerts, latest, ops, requests, sg,
                   sgLog, userDefaults, storedDefaults, download, exported,
                   initialCourseData, aliased>>

\* addQuestion (step 4)
addQuestion ==
  \E t \in Clock :
    /\ NoAlert
    /\ currentStep = 4
    /\ ops < MaxEdits
    /\ now' = t
    /\ data' = [data EXCEPT !.reviewQuestions =
                  Append(@, [id |-> <<"", t>>, question |-> ""])]
    /\ ops' = ops + 1
    /\ UNCHANGED <<nextId, currentStep, isGenerating, topicPrompt, showSavedModal,
                   savedCourses, isLoadingSaved, saveStatus, saveTimers, storedKey,
                   envKey, store, gens, pending, alerts, latest, requests, sg, sgLog,
                   userDefaults, storedDefaults, download, exported, initialCourseData,
                   aliased>>

\* The trash button of a question: filter((_, i) => i !== idx)
removeQuestion ==
  \E idx \in 1..Len(data.reviewQuestions) :
    /\ NoAlert
    /\ currentStep = 4
    /\ data' = [data EXCEPT !.reviewQuestions = RemoveIndex(@, idx)]
    /\ UNCHANGED <<now, nextId, currentStep, isGenerating, topicPrompt, showSavedModal,
                   savedCourses, isLoadingSaved, saveStatus, saveTimers, storedKey,
                   envKey, store, gens, pending, alerts, latest, ops, requests, sg,
                   sgLog, userDefaults, storedDefaults, download, exported,
                   initialCourseData, aliased>>

\* What a drag can end over: an item of the context, or nothing.
DragIds(list) == {list[i].id : i \in 1..Len(list)}

SubTopicsOf(modules) ==
  UNION {DragIds(modules[m].subTopics) : m \in 1..Len(modules)}

\* handleDragEndOutcomes({active, over}) (step 1)
DragEndOutcomes(active, over) ==
  /\ NoAlert
  /\ currentStep = 1
  /\ data' = IF active # over
               THEN [data EXCEPT !.learningOutcomes =
                       arrayMove(@, FindIndex(@, active), FindIndex(@, over))]
               ELSE data
  /\ UNCHANGED <<now, nextId, currentStep, isGenerating, topicPrompt, showSavedModal,
                 savedCourses, isLoadingSaved, saveStatus, saveTimers, storedKey,
                 envKey, store, gens, pending, alerts, latest, ops, requests, sg,
                 sgLog, userDefaults, storedDefaults, download, exported,
                 initialCourseData, aliased>>

handleDragEndOutcomes ==
  \E active \in DragIds(data.learningOutcomes),
     over \in DragIds(data.learningOutcomes) \cup {NoOver} :
    DragEndOutcomes(active, over)

\* A faulty variant of the sub-topic branch: the target is not required to be
\* in the module of the dragged sub-topic.
DragSubTopicAnywhere(activeId, overId) ==
  LET modIndex == IF \E m \in 1..Len(data.modules) :
                        activeId \in DragIds(data.modules[m].subTopics)
                    THEN CHOOSE m \in 1..Len(data.modules) :
                           /\ activeId \in DragIds(data.modules[m].subTopics)
                           /\ \A k \in 1..(m - 1) :
                                activeId \notin DragIds(data.modules[k].subTopics)
                    ELSE 0
  IN IF modIndex # 0
       THEN [data EXCEPT !.modules[modIndex].subTopics =
               arrayMove(@, FindIndex(@, activeId), FindIndex(@, overId))]
       ELSE data

\* The sub-topic branch of handleDragEndModulesStep
DragSubTopic(activeId, overId) ==
  LET modIndex == IF \E m \in 1..Len(data.modules) :
                        activeId \in DragIds(data.modules[m].subTopics)
                    THEN CHOOSE m \in 1..Len(data.modules) :
                           /\ activeId \in DragIds(data.modules[m].subTopics)
                           /\ \A k \in 1..(m - 1) :
                                activeId \notin DragIds(data.modules[k].subTopics)
                    ELSE 0
  IN IF modIndex # 0 /\ overId \in DragIds(data.modules[modIndex].subTopics)
       THEN [data EXCEPT !.modules[modIndex].subTopics =
               arrayMove(@, FindIndex(@, activeId), FindIndex(@, overId))]
       ELSE data

\* handleDragEndModulesStep({active, over}) (step 2)
DragEndModulesStep(activeId, overId) ==
  /\ NoAlert
  /\ currentStep = 2
  /\ data' = IF overId = NoOver THEN data
             ELSE IF StartsWith(activeId, "mod")
               THEN (IF StartsWith(overId, "mod")
                       THEN [data EXCEPT !.modules =
                               arrayMove(@, FindIndex(@, activeId), FindIndex(@, overId))]
                       ELSE data)
             ELSE IF StartsWith(activeId, "sub") THEN DragSubTopic(activeId, overId)
             ELSE data
  /\ UNCHANGED <<now, nextId, currentStep, isGenerating, topicPrompt, showSavedModal,
                 savedCourses, isLoadingSaved, saveStatus, saveTimers, storedKey,
                 envKey, store, gens, pending, alerts, latest, ops, requests, sg,
                 sgLog, userDefaults, storedDefaults, download, exported,
                 initialCourseData, aliased>>

handleDragEndModulesStep ==
  \E activeId \in DragIds(data.modules) \cup SubTopicsOf(data.modules),
     overId \in DragIds(data.modules) \cup SubTopicsOf(data.modules) \cup {NoOver} :
    DragEndModulesStep(activeId, overId)

\* handleDragEndSessionPlan({active, over}) (step 3)
DragEndSessionPlan(active, over) ==
  /\ NoAlert
  /\ currentStep = 3
  /\ data' = IF active # over
               THEN [data EXCEPT !.sessionPlan =
                       arrayMove(@, FindIndex(@, active), FindIndex(@, over))]
               ELSE data
  /\ UNCHANGED <<now, nextId, currentStep, isGenerating, topicPrompt, showSavedModal,
                 savedCourses, isLoadingSaved, saveStatus, saveTimers, storedKey,
                 envKey, store, gens, pending, alerts, latest, ops, requests, sg,
                 sgLog, userDefaults, storedDefaults, download, exported,
                 initialCourseData, aliased>>

handleDragEndSessionPlan ==
  \E active \in DragIds(data.sessionPlan),
     over \in DragIds(data.sessionPlan) \cup {NoOver} :
    DragEndSessionPlan(active, over)

\* The list editors of steps 1 to 4 on a fresh draft.
NextEdit ==
  \/ SetCurrentStep
  \/ addOutcome
  \/ removeOutcome
  \/ addModule
  \/ removeModule
  \/ addSubTopic
  \/ addSessionRow
  \/ removeSessionRow
  \/ addQuestion
  \/ removeQuestion
  \/ handleDragEndOutcomes
  \/ handleDragEndModulesStep
  \/ handleDragEndSessionPlan

SpecEdit == Init /\ [][NextEdit]_vars

\* A draft filled by the AI actions at time 1 with no outcomes, two modules (of
\* ns sub-topics and of one) and np session rows: what quickStart and
\* autoFillSessionPlan leave after responses of those sizes.
OutcomeTexts == <<"LO1", "LO2", "LO3", "LO4">>

SubTopicTexts == <<"S1", "S2", "S3", "S4">>

StructureOfSize(no, ns) ==
  [CourseStructurePayload EXCEPT
     !.learningOutcomes = SubSeq(OutcomeTexts, 1, no),
     !.modules = << [title |-> "M1", subTopics |-> SubSeq(SubTopicTexts, 1, ns)],
                    [title |-> "M2", subTopics |-> <<"S1">>] >>]

PlanOfSize(np) == [i \in 1..np |-> SessionPlanPayload[1]]

GeneratedDraft(no, ns, np) ==
  ApplySessionPlan(ApplyCourseStructure(GetInitialData(1), StructureOfSize(no, ns), 1),
                   PlanOfSize(np), 1)

\* One of the three lists has up to MaxItems items, the other two have two.
InitDrag ==
  \E n \in 1..MaxItems, long \in {"learningOutcomes", "subTopics", "sessionPlan"} :
    InitDoc(None, None, {}, << >>,
            GeneratedDraft(IF long = "learningOutcomes" THEN n ELSE 2,
                           IF long = "subTopics" THEN n ELSE 2,
                           IF long = "sessionPlan" THEN n ELSE 2))

NextDrag ==
  \/ SetCurrentStep
  \/ handleDragEndOutcomes
  \/ handleDragEndModulesStep
  \/ handleDragEndSessionPlan

SpecDrag == InitDrag /\ [][NextDrag]_vars

\* ------------------------------------------------------- JSON export
\* The own properties of a course object, in insertion order.
CourseKeys ==
  <<"id", "lastModified", "trainerName", "courseTitle", "duration", "location",
    "trainerBio", "trainerTitle", "learningOutcomes", "iceBreaker", "modules",
    "sessionPlan", "reviewQuestions">>

\* A property JSON.stringify leaves out: its value is undefined.
Undefined(course, key) ==
  \/ key = "id" /\ course.id = NoId
  \/ key = "lastModified" /\ course.lastModified = NoTime

\* JSON.stringify(course, null, 2): the text as its sequence of members
\* <<key, value>>, a member with an undefined value being left out.
RECURSIVE Members(_, _)
Members(course, keys) ==
  IF keys = << >> THEN << >>
  ELSE (IF Undefined(course, Head(keys)) THEN << >>
        ELSE << <<Head(keys), course[Head(keys)]>> >>) \o Members(course, Tail(keys))

JSONStringify(course) == Members(course, CourseKeys)

HasMember(text, key) == \E i \in 1..Len(text) : text[i][1] = key

MemberValue(text, key) == text[CHOOSE i \in 1..Len(text) : text[i][1] = key][2]

\* A faulty variant of the parse: the id member is not read.
JSONParseWithoutId(text) ==
  [key \in {CourseKeys[i] : i \in 1..Len(CourseKeys)} |->
     IF key # "id" /\ HasMember(text, key) THEN MemberValue(text, key)
     ELSE IF key = "id" THEN NoId ELSE NoTime]

\* JSON.parse(text) read as a course: a member that is missing reads as
\* undefined (only id and lastModified can be missing from an exported course).
JSONParse(text) ==
  [key \in {CourseKeys[i] : i \in 1..Len(CourseKeys)} |->
     IF HasMember(text, key) THEN MemberValue(text, key)
     ELSE IF key = "id" THEN NoId ELSE NoTime]

\* exportToJSON: the JSON button of a row of the saved-courses list
exportToJSON ==
  \E course \in ListedCourses :
    /\ NoAlert
    /\ showSavedModal
    /\ download' = << [type |-> "application/json", text |-> JSONStringify(course)] >>
    /\ exported' = <<course>>
    /\ UNCHANGED <<now, nextId, currentStep, data, isGenerating, topicPrompt,
                   showSavedModal, savedCourses, isLoadingSaved, saveStatus,
                   saveTimers, storedKey, envKey, store, gens, pending, alerts, latest,
                   ops, requests, sg, sgLog, userDefaults, storedDefaults,
                   initialCourseData, aliased>>

\* The file picked in the import dialog is the JSON file downloaded last.
ImportDownloadedFile ==
  /\ download # << >>
  /\ download[1].type = "application/json"
  /\ handleFileImport({JSONParse(download[1].text)})

\* A database left by earlier sessions: a titled course, an untitled one
\* written without lastModified, both or neither.
RoundTripStores ==
  SUBSET {[DbCourse(1, 1) EXCEPT !.courseTitle = <<"T">>], DbCourse(2, NoTime)}

InitRoundTrip == \E courses \in RoundTripStores : InitState(None, None, courses)

NextRoundTrip ==
  \/ DismissAlert
  \/ OpenSavedModal
  \/ FetchResolves
  \/ exportToJSON
  \/ ImportDownloadedFile
  \/ ImportResolves
  \/ ImportRejects
  \/ handleDeleteCourse
  \/ DeleteResolves

SpecRoundTrip == InitRoundTrip /\ [][NextRoundTrip]_vars

\* ------------------------------------------------------- foreign files
\* A JSON file that passes the import check (modules and sessionPlan are
\* there, as empty arrays) and has no learningOutcomes and no
\* reviewQuestions member, no id and no lastModified.
PartialCourse ==
  [key \in (DOMAIN INITIAL_COURSE_DATA) \ {"learningOutcomes", "reviewQuestions"} |->
     IF key = "modules" THEN << >>
     ELSE IF key = "courseTitle" THEN <<"P">>
     ELSE INITIAL_COURSE_DATA[key]]

ImportPartialFile == handleFileImport({PartialCourse})

\* Draft saves and file imports from a first visit.
NextImport ==
  \/ DismissAlert
  \/ handleSaveDraft
  \/ SaveResolves
  \/ SaveRejects
  \/ SaveTimerFires
  \/ OpenSavedModal
  \/ FetchResolves
  \/ FetchRejects
  \/ ImportForeignFile
  \/ ImportPartialFile
  \/ ImportResolves
  \/ ImportRejects

SpecImport == Init /\ [][NextImport]_vars

\* ------------------------------------------------------- default profile
\* What the Settings form can hold: nothing typed, or a profile.
Profiles ==
  {BlankDefaults,
   [trainerName |-> "Ann", trainerTitle |-> "Coach", trainerBio |-> "Bio", location |-> "KL"],
   [trainerName |-> "Bo", trainerTitle |-> "", trainerBio |-> "", location |-> ""]}

\* The four profile inputs of the Settings form: setUserDefaults({...userDefaults, ...})
SetUserDefaults ==
  \E profile \in Profiles :
    /\ NoAlert
    /\ profile # userDefaults
    /\ userDefaults' = profile
    /\ UNCHANGED <<now, nextId, currentStep, data, isGenerating, topicPrompt,
                   showSavedModal, savedCourses, isLoadingSaved, saveStatus,
                   saveTimers, storedKey, envKey, store, gens, pending, alerts, latest,
                   ops, requests, sg, sgLog, storedDefaults, download, exported,
                   initialCourseData, aliased>>

\* The page opened on a browser where a profile was or was not saved before.
InitDefaults ==
  \E defaults \in {<< >>} \cup {<<p>> : p \in Profiles} :
    InitPage(None, None, {}, defaults)

NextDefaults ==
  \/ DismissAlert
  \/ SetUserDefaults
  \/ handleSaveSettings
  \/ OpenSavedModal
  \/ CloseSavedModal
  \/ FetchResolves
  \/ FetchRejects
  \/ StartNewBlankDraft

SpecDefaults == InitDefaults /\ [][NextDefaults]_vars

\* ------------------------------------------------------- preconditions
\* The three AI actions that have a precondition, on a page with a key
\* stored, over drafts whose title, outcomes and modules can be emptied.
InitPre == InitWith("k1", None)

NextPre ==
  \/ DismissAlert
  \/ SetCurrentStep
  \/ SetTopicPrompt
  \/ handleInputChange
  \/ removeOutcome
  \/ removeModule
  \/ quickStart
  \/ generateModules
  \/ autoFillSessionPlan
  \/ AiResolves
  \/ AiRejects

SpecPre == InitPre /\ [][NextPre]_vars

\* ------------------------------------------------------- imports
\* The import dialog on a first visit: files that are no JSON, JSON that is
\* no course, and hand-written courses with and without all their lists.
NextFiles ==
  \/ DismissAlert
  \/ OpenSavedModal
  \/ FetchResolves
  \/ ImportForeignFile
  \/ ImportPartialFile
  \/ ImportResolves
  \/ ImportRejects

SpecFiles == Init /\ [][NextFiles]_vars

\* ---------------------------------------------------------- blank drafts
\* New blank drafts from the saved-courses modal, and typing into the
\* outcomes and sub-topics of the draft.
NextBlank ==
  \/ SetCurrentStep
  \/ OpenSavedModal
  \/ FetchResolves
  \/ StartNewBlankDraft
  \/ handleOutcomeChange
  \/ handleSubTopicChange
  \/ addSubTopic

SpecBlank == Init /\ [][NextBlank]_vars

\* ------------------------------------------------------------------ claims
KeyConfigured ==
  \/ storedKey # None /\ storedKey # ""
  \/ envKey # None /\ envKey # ""

\* An AI handler's generation call fails: safeGenerate throws at once (no
\* key) or at the end of its attempts.
AiKeyMissing ==
  \E kind \in AiKinds : AiAction(kind) /\ AiPrecondition(kind) /\ ~KeyConfigured

\* C1: when the generation call of any of the four AI actions fails (no key,
\* every attempt failed, malformed JSON), the step leaves the document and
\* the current step as they were and puts exactly one alert on the screen.
C1_FailedGenerationLeavesDocument ==
  [][(AiRejects \/ AiKeyMissing) =>
       /\ data' = data
       /\ currentStep' = currentStep
       /\ alerts = << >>
       /\ Len(alerts') = 1]_vars

\* A generation that ran with a key has just failed on the questions step.
C1_Witness ==
  /\ KeyConfigured
  /\ currentStep = 4
  /\ alerts = <<AiFailureAlert("autoGenerateQuestions")>>
  /\ ~isGenerating
  /\ requests > 0

Failed(outcome) == outcome # "ok"
Errored(outcome) == outcome \in {"badjson", "error"}

LastOutcome == sgLog.outcomes[Len(sgLog.outcomes)]

\* C2 (safety): one invocation makes at most 3 calls; it returns exactly when
\* an attempt carried parseable JSON, with that payload and no further call;
\* an invocation that made calls and did not return made 3 failed attempts
\* and throws at once after the third; a bad-JSON attempt is followed by the
\* same backoff and retry as a transport error.
C2_Attempts ==
  /\ sgLog.calls <= retries
  /\ Len(sgLog.outcomes) <= sgLog.calls
  /\ sg.pc = "await" <=> sgLog.calls = Len(sgLog.outcomes) + 1
  /\ \A n \in 1..Len(sgLog.outcomes) :
       ~Failed(sgLog.outcomes[n]) => n = Len(sgLog.outcomes) /\ sg.pc = "returned"
  /\ sg.pc = "returned" =>
       /\ sgLog.outcomes # << >>
       /\ LastOutcome = "ok"
       /\ sg.value = QuestionsPayload
  /\ (sg.pc = "threw" /\ sgLog.calls > 0) =>
       /\ sgLog.calls = retries
       /\ Len(sgLog.outcomes) = retries
       /\ \A n \in 1..retries : Failed(sgLog.outcomes[n])
  /\ (Len(sgLog.outcomes) = retries /\ Failed(LastOutcome)) =>
       sg.pc \in {"backoff", "threw"}
  /\ sg.pc = "backoff" <=>
       /\ sgLog.outcomes # << >>
       /\ Errored(LastOutcome)
       /\ sgLog.calls = Len(sgLog.outcomes)
       /\ sg.error = None
  /\ Len(sgLog.waits) =
       Cardinality({n \in 1..Len(sgLog.outcomes) : Errored(sgLog.outcomes[n])})

RECURSIVE ErroredAttempts(_, _)
ErroredAttempts(outcomes, n) ==
  IF n > Len(outcomes) THEN << >>
  ELSE IF Errored(outcomes[n]) THEN <<n>> \o ErroredAttempts(outcomes, n + 1)
  ELSE ErroredAttempts(outcomes, n + 1)

\* C3: the wait after the k-th attempt, when it raised an error, is k seconds
\* (1s, 2s, 3s when all three did), and the helper leaves the wait, for the
\* next attempt or the final throw, only when k seconds have passed.
C3_LinearBackoff ==
  /\ sgLog.waits = ErroredAttempts(sgLog.outcomes, 1)
  /\ (\A n \in 1..Len(sgLog.outcomes) : Errored(sgLog.outcomes[n])) =>
       sgLog.waits = SubSeq(<<1, 2, 3>>, 1, Len(sgLog.outcomes))
  /\ (sgLog.outcomes # << >> /\ Errored(LastOutcome)) =>
       IF sg.pc = "backoff"
         THEN sgLog.elapsed + sg.remaining = Len(sgLog.outcomes)
         ELSE sgLog.elapsed = Len(sgLog.outcomes)

\* Three errors: the final throw after waits of 1s, 2s and 3s.
C3_Witness ==
  /\ sg.pc = "threw"
  /\ sgLog.waits = <<1, 2, 3>>
  /\ sgLog.elapsed = 3

\* The errors the attempts of the invocation raised.
AttemptErrors ==
  {IF sgLog.outcomes[n] = "badjson" THEN ErrSyntax ELSE ErrTransport :
     n \in {m \in 1..Len(sgLog.outcomes) : Errored(sgLog.outcomes[m])}}

C4_NoKey ==
  ~KeyConfigured =>
    /\ sg.pc \in {"idle", "threw"}
    /\ sg.pc = "threw" => sg.error = ErrKeyMissing
    /\ sgLog.calls = 0
    /\ sgLog.waits = << >>

C4_Outcome ==
  /\ sg.pc = "returned" => sg.value = QuestionsPayload
  /\ sg.pc = "threw" => sgLog.calls = retries /\ sg.error # ErrKeyMissing

C5_OneGenerationInFlight ==
  /\ Len(gens) <= 1
  /\ Len(gens) = 1 <=> isGenerating
  /\ isGenerating => \A kind \in AiKinds : ~AiButtonEnabled(kind)

\* A Quick Builder request is in flight and the user is on the questions step.
C5_Witness ==
  /\ Len(gens) = 1
  /\ gens[1].kind = "quickStart"
  /\ currentStep = 4
  /\ isGenerating

SavesInFlight == {k \in 1..Len(pending) : pending[k].op = "save"}

\* C6: no two asynchronous operations that write the document are in flight
\* at the same time; in particular an AI generation and a draft save never
\* overlap.
C6_NoOverlappingWrites == Len(gens) + Cardinality(SavesInFlight) <= 1

\* Every id a record, a request, the list or the document carries.
UsedIds ==
  {r.id : r \in store} \cup {data.id}
    \cup {pending[k].course.id : k \in 1..Len(pending)}
    \cup {savedCourses[n].id : n \in 1..Len(savedCourses)}

\* Save Draft is clicked: the snapshot on its way to the store keeps the
\* document's id, or carries an id nothing carried before, and is stamped
\* with the clock reading of the click.
C7_Snapshot ==
  handleSaveDraft =>
    LET course == pending'[Len(pending')].course IN
      /\ course.id # NoId
      /\ IF data.id # NoId THEN course.id = data.id ELSE course.id \notin UsedIds
      /\ course.lastModified = now'

\* The save of request k has succeeded.
SaveResolved(k) ==
  /\ SaveResolves
  /\ k \in SavesInFlight
  /\ pending' = RemoveAt(pending, k)
  /\ data' = pending[k].course

\* ... the document is that snapshot and the store holds it.
C7_Stored ==
  \A k \in 1..Len(pending) :
    SaveResolved(k) =>
      /\ data'.id = pending[k].course.id
      /\ data'.lastModified = pending[k].course.lastModified
      /\ \E r \in store' : r.id = data'.id /\ r = data'

\* C7 as stated: after a successful Save Draft the document has the id it
\* had before (a new one if it had none) and the save time as lastModified,
\* and the store holds its record; and saving a document that already has
\* an id (it was saved before, or loaded from the list) never increases the
\* number of stored records.
C7_AsStated ==
  [][/\ C7_Snapshot
     /\ C7_Stored
     /\ \A k \in 1..Len(pending) :
          (SaveResolved(k) /\ data.id = pending[k].course.id) =>
            Cardinality(store') <= Cardinality(store)]_vars

\* C7, amended: the same, but the number of stored records stays the same
\* only while the store still holds a record with the document's id; a
\* document whose record has been deleted is stored again by the save.
C7_SaveKeepsIdAndRecordCount ==
  [][/\ C7_Snapshot
     /\ C7_Stored
     /\ \A k \in 1..Len(pending) :
          (SaveResolved(k) /\ \E r \in store : r.id = pending[k].course.id) =>
            Cardinality(store') = Cardinality(store)]_vars

\* A draft saved at time 1 has been saved again at time 2: one record.
C7_Witness ==
  /\ saveStatus = "saved"
  /\ data.id = 1
  /\ data.lastModified = 2
  /\ store = {data}
  /\ nextId = 1
  /\ savedCourses = << >>
  /\ ops = 2

\* C8: the store holds at most one record per id, and under each id the
\* record written last and not deleted since.
C8_OneRecordPerIdLastWriteWins ==
  /\ \A r1, r2 \in store : r1.id = r2.id => r1 = r2
  /\ \A r \in store : r.id \in Keys /\ latest[r.id] = <<r>>
  /\ \A k \in Keys : latest[k] # << >> => latest[k][1] \in store

\* The record of the saved draft has been replaced by its imported copy.
C8_Witness ==
  /\ data.id = 1
  /\ Cardinality(store) = 1
  /\ \E r \in store :
       /\ r.id = 1
       /\ r.courseTitle = ImportedTitle(data.courseTitle)
       /\ r.lastModified = 2

\* b.lastModified || 0
TimestampOrZero(r) == IF r.lastModified \in Nat THEN r.lastModified ELSE 0

\* C9: getAllCourses returns every stored record exactly once, newest
\* first, a record without lastModified ordered as one stamped 0.
C9_ListingNewestFirst ==
  LET listing == getAllCourses(store) IN
    /\ Len(listing) = Cardinality(store)
    /\ {listing[n] : n \in 1..Len(listing)} = store
    /\ \A m, n \in 1..Len(listing) :
         m < n => TimestampOrZero(listing[m]) >= TimestampOrZero(listing[n])
    /\ (showSavedModal /\ ~isLoadingSaved /\ pending = << >> /\ savedCourses # << >>) =>
         savedCourses = listing

\* The list shows three fetched records, the newest first and one without
\* lastModified last.
C9_Witness ==
  /\ showSavedModal
  /\ ~isLoadingSaved
  /\ Len(savedCourses) = 3
  /\ savedCourses = getAllCourses(store)
  /\ savedCourses[1].lastModified = 2
  /\ savedCourses[2].lastModified = 1
  /\ savedCourses[3].lastModified = NoTime

\* C10: a failed persistence operation (save, fetch of the list, delete,
\* import) puts exactly one alert on the screen and leaves the document as
\* it was.
C10_PersistenceFailureAlertsOnce ==
  [][(SaveRejects \/ FetchRejects \/ DeleteRejects \/ ImportRejects) =>
       /\ data' = data
       /\ alerts = << >>
       /\ Len(alerts') = 1]_vars

\* ---- C11
\* The cells of one line of a table: the pipes that no backslash escapes
\* delimit them, the first and the last pipe being the borders of the row.
RECURSIVE Delimiters(_)
Delimiters(line) ==
  IF line = << >> THEN 0
  ELSE IF Head(line) = "\\"
    THEN (IF Len(line) = 1 THEN 0 ELSE Delimiters(Tail(Tail(line))))
  ELSE (IF Head(line) = "|" THEN 1 ELSE 0) + Delimiters(Tail(line))

CellCount(line) == Delimiters(line) - 1

\* The lines of a text, split at its line feeds.
RECURSIVE Lines(_)
Lines(text) ==
  IF \A i \in 1..Len(text) : text[i] # "\n" THEN <<text>>
  ELSE LET i == CHOOSE j \in 1..Len(text) :
                  text[j] = "\n" /\ \A k \in 1..(j - 1) : text[k] # "\n"
       IN <<SubSeq(text, 1, i - 1)>> \o Lines(SubSeq(text, i + 1, Len(text)))

\* The table of a section: its lines up to the first blank one.
RECURSIVE UpToBlank(_)
UpToBlank(lines) ==
  IF lines = << >> \/ Head(lines) = << >> THEN << >>
  ELSE <<Head(lines)>> \o UpToBlank(Tail(lines))

TableLines(file) == UpToBlank(Lines(file.sessionPlan))

Exported == download # << >>

\* C11: in every exported Markdown file the header line, the separator line
\* and every data row of the session-plan table have six cells, and the table
\* has one line per session-plan row besides those two, whatever the cells hold.
C11_SixColumnTable ==
  Exported =>
    LET lines == TableLines(download[1])
    IN /\ \A i \in 1..Len(lines) : CellCount(lines[i]) = 6
       /\ \A course \in ListedCourses : Len(lines) = 2 + Len(course.sessionPlan)

\* What the export does guarantee: one line per row, so no cell adds a line.
C11_OneLinePerRow ==
  Exported =>
    \A course \in ListedCourses :
      Len(TableLines(download[1])) = 2 + Len(course.sessionPlan)

\* The header and the separator have five cells whatever the course.
C11_HeaderFiveCells ==
  Exported =>
    LET lines == TableLines(download[1])
    IN CellCount(lines[1]) = 5 /\ CellCount(lines[2]) = 5

\* ---- C12
\* new is old with the item at index from moved to index to: same length, the
\* moved item at to, and the other items in the order they had.
Moved(old, new, from, to) ==
  /\ Len(new) = Len(old)
  /\ new[to] = old[from]
  /\ RemoveAt(new, to) = RemoveAt(old, from)

\* new holds the items of old, each as often.
Permutation(old, new) ==
  /\ Len(new) = Len(old)
  /\ \A x \in DragIds(old) \cup DragIds(new) :
        Cardinality({i \in 1..Len(old) : old[i].id = x})
          = Cardinality({i \in 1..Len(new) : new[i].id = x})

\* Every field of the document but f is as it was, and so is the rest of the page.
OnlyField(f) ==
  /\ \A g \in (DOMAIN data) \ {f} : data'[g] = data[g]
  /\ currentStep' = currentStep /\ alerts' = alerts /\ store' = store
  /\ savedCourses' = savedCourses /\ saveStatus' = saveStatus

C12_Outcomes ==
  \A a \in DragIds(data.learningOutcomes), b \in DragIds(data.learningOutcomes) :
    (a # b /\ DragEndOutcomes(a, b)) =>
      /\ Moved(data.learningOutcomes, data'.learningOutcomes,
               FindIndex(data.learningOutcomes, a), FindIndex(data.learningOutcomes, b))
      /\ Permutation(data.learningOutcomes, data'.learningOutcomes)
      /\ OnlyField("learningOutcomes")

C12_Modules ==
  \A a \in DragIds(data.modules), b \in DragIds(data.modules) :
    (a # b /\ DragEndModulesStep(a, b)) =>
      /\ Moved(data.modules, data'.modules,
               FindIndex(data.modules, a), FindIndex(data.modules, b))
      /\ Permutation(data.modules, data'.modules)
      /\ OnlyField("modules")

\* The module whose sub-topic list holds the id (the first such module).
ModuleOf(a) ==
  CHOOSE m \in 1..Len(data.modules) :
    /\ a \in DragIds(data.modules[m].subTopics)
    /\ \A k \in 1..(m - 1) : a \notin DragIds(data.modules[k].subTopics)

C12_SubTopics ==
  \A a \in SubTopicsOf(data.modules) :
    \A b \in DragIds(data.modules[ModuleOf(a)].subTopics) :
      (a # b /\ DragEndModulesStep(a, b)) =>
        LET m == ModuleOf(a)
        IN /\ Len(data'.modules) = Len(data.modules)
           /\ Moved(data.modules[m].subTopics, data'.modules[m].subTopics,
                    FindIndex(data.modules[m].subTopics, a),
                    FindIndex(data.modules[m].subTopics, b))
           /\ Permutation(data.modules[m].subTopics, data'.modules[m].subTopics)
           /\ \A k \in (1..Len(data.modules)) \ {m} : data'.modules[k] = data.modules[k]
           /\ data'.modules[m].id = data.modules[m].id
           /\ data'.modules[m].title = data.modules[m].title
           /\ OnlyField("modules")

C12_SessionPlan ==
  \A a \in DragIds(data.sessionPlan), b \in DragIds(data.sessionPlan) :
    (a # b /\ DragEndSessionPlan(a, b)) =>
      /\ Moved(data.sessionPlan, data'.sessionPlan,
               FindIndex(data.sessionPlan, a), FindIndex(data.sessionPlan, b))
      /\ Permutation(data.sessionPlan, data'.sessionPlan)
      /\ OnlyField("sessionPlan")

\* C12: each reorder handler (learning outcomes, modules, sub-topics of one
\* module, session-plan rows), given a dragged item and a different target
\* item of the same list, leaves a permutation of that list of the same
\* length, with the dragged item at the index the target had and the other
\* items in their former relative order; every other list and field of the
\* document is unchanged.
C12_ReorderIsAMove ==
  [][C12_Outcomes /\ C12_Modules /\ C12_SubTopics /\ C12_SessionPlan]_vars

\* Reached only by drags: the last of three generated outcomes now first, the
\* second module first, the second sub-topic of the first generated module
\* first in it, and the second session row first.
C12_Witness ==
  /\ Ids(data.learningOutcomes) = << <<"lo", 1, 2>>, <<"lo", 1, 0>>, <<"lo", 1, 1>> >>
  /\ Ids(data.modules) = << <<"mod", 1, 1>>, <<"mod", 1, 0>> >>
  /\ Ids(data.modules[2].subTopics) = << <<"sub", 1, 0, 1>>, <<"sub", 1, 0, 0>> >>
  /\ Ids(data.sessionPlan) = << <<"sp", 1, 1>>, <<"sp", 1, 0>> >>

\* ---- C15
\* The step appends one item with empty text to the learning outcomes and
\* changes nothing else.
AppendsOneOutcome ==
  /\ Len(data'.learningOutcomes) = Len(data.learningOutcomes) + 1
  /\ SubSeq(data'.learningOutcomes, 1, Len(data.learningOutcomes)) = data.learningOutcomes
  /\ data'.learningOutcomes[Len(data'.learningOutcomes)].text = ""
  /\ OnlyField("learningOutcomes")

\* The id of the appended outcome is the id of no outcome already in the list.
FreshOutcomeId ==
  data'.learningOutcomes[Len(data'.learningOutcomes)].id \notin DragIds(data.learningOutcomes)

\* C15: addOutcome appends exactly one item with empty text at the end of the
\* learning outcomes, the new item's id differs from every id already in the
\* list, and the existing items, their order and all other fields are unchanged.
C15_AddOutcomeAppendsFreshItem ==
  [][addOutcome => (AppendsOneOutcome /\ FreshOutcomeId)]_vars

\* What addOutcome does guarantee: the append, whatever the id.
C15_AddOutcomeAppends == [][addOutcome => AppendsOneOutcome]_vars

\* ---- C16
Distinct(ids) == \A i, j \in 1..Len(ids) : i # j => ids[i] # ids[j]

RECURSIVE Flatten(_)
Flatten(lists) == IF lists = << >> THEN << >> ELSE Head(lists) \o Flatten(Tail(lists))

AllSubTopicIds(modules) == Flatten([m \in 1..Len(modules) |-> Ids(modules[m].subTopics)])

\* C16: in every document the editor reaches from a fresh draft, item ids are
\* pairwise distinct within the learning outcomes, the modules, the
\* sub-topics of all modules taken together, the session plan and the review
\* questions.
C16_ItemIdsDistinct ==
  /\ Distinct(Ids(data.learningOutcomes))
  /\ Distinct(Ids(data.modules))
  /\ Distinct(AllSubTopicIds(data.modules))
  /\ Distinct(Ids(data.sessionPlan))
  /\ Distinct(Ids(data.reviewQuestions))

\* The documents the AI actions build have distinct ids: the index of the item
\* is part of each id.
C16_GeneratedIdsDistinct ==
  \A no, ns, np \in 0..MaxItems :
    LET d == GeneratedDraft(no, ns, np)
    IN /\ Distinct(Ids(d.learningOutcomes))
       /\ Distinct(Ids(d.modules))
       /\ Distinct(AllSubTopicIds(d.modules))
       /\ Distinct(Ids(d.sessionPlan))

\* ---- C13
\* The import request that the step has just put in flight.
ImportStarted == ImportDownloadedFile /\ Len(pending') = Len(pending) + 1

\* r has the id of e and every field of e but courseTitle and lastModified.
SameButTitleAndTime(e, r) ==
  \A key \in (DOMAIN e) \ {"courseTitle", "lastModified"} : r[key] = e[key]

\* The record built from the exported file, against the exported course,
\* with the title the statement gives it.
C13_BuiltAsStated ==
  ImportStarted =>
    LET e == exported[1]
        r == pending'[Len(pending')].course
    IN /\ SameButTitleAndTime(e, r)
       /\ r.courseTitle = Append(e.courseTitle, " (Imported)")

\* The same with the title the code gives an untitled course.
C13_Built ==
  ImportStarted =>
    LET e == exported[1]
        r == pending'[Len(pending')].course
    IN /\ SameButTitleAndTime(e, r)
       /\ r.courseTitle = IF e.courseTitle = EmptyTitle
                            THEN <<"Imported Course", " (Imported)">>
                            ELSE Append(e.courseTitle, " (Imported)")

\* The completed import stores the record it built, in place of the record
\* with its id if the store holds one.
C13_Stored ==
  ImportResolves =>
    \E k \in 1..Len(pending) :
      /\ pending[k].op = "import"
      /\ pending[k].course \in store'
      /\ (\E r \in store : r.id = pending[k].course.id)
           => Cardinality(store') = Cardinality(store)

\* The statement of the spec: the imported title is always the exported
\* title followed by " (Imported)".
C13_AsStated == [][C13_BuiltAsStated /\ C13_Stored]_vars

\* C13: exporting a stored course to JSON and importing that file stores a
\* record with the same id whose every field other than courseTitle and
\* lastModified equals the exported course's; the imported title is the
\* exported title followed by " (Imported)", or "Imported Course (Imported)"
\* when the exported title is empty; the number of stored records is
\* unchanged when a record with that id is still in the store.
C13_ExportImportRoundTrip == [][C13_Built /\ C13_Stored]_vars

\* Both courses went round: each is stored under its id with its imported title.
C13_Witness ==
  /\ exported # << >>
  /\ \E r \in store : r.id = 1 /\ r.courseTitle = <<"T", " (Imported)">>
  /\ \E r \in store : r.id = 2 /\ r.courseTitle = <<"Imported Course", " (Imported)">>
  /\ Cardinality(store) = 2

\* ---- C14
ListKeys == {"learningOutcomes", "modules", "sessionPlan", "reviewQuestions"}

\* The record has an id, a lastModified and the four ordered lists.
MatchesDataModel(r) ==
  /\ r.id # NoId
  /\ r.lastModified # NoTime
  /\ ListKeys \subseteq DOMAIN r

\* C14: after any sequence of draft saves and file imports every record in
\* the store has an id, a lastModified and the four ordered lists
\* (learningOutcomes, modules, sessionPlan, reviewQuestions).
C14_StoredRecordsMatchDataModel == \A r \in store : MatchesDataModel(r)

\* What the writes do guarantee: every stored record has an id and a
\* lastModified, and the two lists the import checks for.
C14_StoredRecordsHaveKeyAndTime ==
  \A r \in store :
    /\ r.id # NoId
    /\ r.lastModified # NoTime
    /\ {"modules", "sessionPlan"} \subseteq DOMAIN r

\* ---- C17
ProfileOf(d) ==
  [trainerName |-> d.trainerName, trainerTitle |-> d.trainerTitle,
   trainerBio |-> d.trainerBio, location |-> d.location]

\* The default profile values last saved in Settings (blank if none were).
SavedProfile == IF storedDefaults = << >> THEN BlankDefaults ELSE storedDefaults[1]

\* C17: whenever a new draft is started, at application start or with Start
\* New Blank Draft, the draft's trainerName, trainerTitle, trainerBio and
\* location equal the default profile values last saved in Settings.
C17_NewDraftHasSavedDefaults ==
  /\ ProfileOf(data) = SavedProfile
  /\ [][StartNewBlankDraft => ProfileOf(data') = SavedProfile]_vars

\* What Start New Blank Draft does: the four fields are blank, whatever is saved.
C17_BlankDraftIsBlank ==
  [][StartNewBlankDraft => ProfileOf(data') = BlankDefaults]_vars

\* ---- C18
\* A save is failing in this step: a save request leaves pending and the
\* failure alert comes up.
SaveFails ==
  /\ \E k \in 1..Len(pending) : pending[k].op = "save" /\ pending' = RemoveAt(pending, k)
  /\ alerts = << >>
  /\ alerts' = <<"Failed to save draft.">>

\* C18: if Save Draft fails, the in-memory document keeps the id (possibly
\* none) and the lastModified it had, no record is added to or changed in the
\* store, and saveStatus returns to 'idle'.
C18_FailedSaveChangesNothing ==
  [][SaveFails =>
       /\ data'.id = data.id
       /\ data'.lastModified = data.lastModified
       /\ data' = data
       /\ store' = store
       /\ saveStatus' = "idle"]_vars

\* The first save of a fresh draft has failed: the draft has no id and no
\* lastModified, the store is empty, the button is idle again.
C18_Witness ==
  /\ alerts = <<"Failed to save draft.">>
  /\ data.id = NoId
  /\ data.lastModified = NoTime
  /\ store = {}
  /\ saveStatus = "idle"
  /\ ops > 0

\* ---- C19
\* The precondition of each action as the statement gives it.
StatedPrecondition(kind) ==
  CASE kind = "generateModules" ->
         data.courseTitle # EmptyTitle /\ Len(data.learningOutcomes) >= 1
    [] kind = "autoFillSessionPlan" -> Len(data.modules) >= 1
    [] kind = "quickStart" -> topicPrompt # ""
    [] OTHER -> TRUE

GuardedKinds == {"quickStart", "generateModules", "autoFillSessionPlan"}

\* The step sends a request of this kind.
RequestSent(kind) ==
  /\ Len(gens') = Len(gens) + 1
  /\ gens'[Len(gens')].kind = kind

\* C19: generateModules sends a request only when the document has a
\* non-empty course title and at least one learning outcome,
\* autoFillSessionPlan only when it has at least one module, quickStart only
\* when the topic prompt is non-empty; a click while the precondition fails
\* sends no request, leaves isGenerating false and leaves the document unchanged.
C19_GenerationPreconditions ==
  [][\A kind \in GuardedKinds :
       /\ RequestSent(kind) => StatedPrecondition(kind)
       /\ (AiAction(kind) /\ ~StatedPrecondition(kind)) =>
            /\ gens' = gens
            /\ requests' = requests
            /\ ~isGenerating /\ ~isGenerating'
            /\ data' = data]_vars

\* A refusal: the draft has a title, its outcomes were all removed, and the
\* modules button answered with its alert and sent nothing.
C19_Witness ==
  /\ ~isGenerating
  /\ gens = << >>
  /\ requests = 0
  /\ Len(data.learningOutcomes) = 0
  /\ data.courseTitle # EmptyTitle
  /\ alerts = <<"Please ensure you have a Course Title and Learning Outcomes defined.">>

\* ---- C20
\* A step of the import: a file is picked and read, or the write of an
\* imported course completes or fails.
FilePicked == ImportForeignFile \/ ImportPartialFile

ImportStep == FilePicked \/ ImportResolves \/ ImportRejects

\* The file picked is turned down: nothing is put in flight.
FileRefused == FilePicked /\ pending' = pending

\* The step writes an imported record parsed from a file that has modules
\* and sessionPlan.
CourseFileStored ==
  \E k \in 1..Len(pending) :
    /\ pending[k].op = "import"
    /\ {"modules", "sessionPlan"} \subseteq DOMAIN pending[k].course
    /\ store' = saveCourseToDB(store, pending[k].course)

ModuleIds == DragIds(data.modules)

SubTopicIds == SubTopicsOf(data.modules)

\* A drop across lists: a sub-topic on a sub-topic of another module or on a
\* module, or a module on a sub-topic.
DropAcross(a, b) ==
  \/ a \in SubTopicIds /\ b \in SubTopicIds /\ ModuleOf(a) # ModuleOf(b)
  \/ a \in SubTopicIds /\ b \in ModuleIds
  \/ a \in ModuleIds /\ b \in SubTopicIds

\* The sub-topics of the module with this id, as a set of items.
SubTopicSet(modules, id) ==
  LET m == FindIndex(modules, id)
  IN {modules[m].subTopics[i] : i \in 1..Len(modules[m].subTopics)}

\* Every module keeps its set of sub-topics.
SubTopicSetsKept ==
  /\ DragIds(data'.modules) = ModuleIds
  /\ \A id \in ModuleIds : SubTopicSet(data'.modules, id) = SubTopicSet(data.modules, id)

\* C21: on the Modules step, dropping a sub-topic on a sub-topic of another
\* module or on a module, or a module on a sub-topic, leaves the whole
\* document unchanged; no drag moves a sub-topic to another module: every
\* module keeps its set of sub-topics.
C21_SubTopicsStayInTheirModule ==
  [][/\ \A a \in ModuleIds \cup SubTopicIds, b \in ModuleIds \cup SubTopicIds :
          (DropAcross(a, b) /\ DragEndModulesStep(a, b)) => data' = data
     /\ (handleDragEndOutcomes \/ handleDragEndModulesStep \/ handleDragEndSessionPlan)
          => SubTopicSetsKept]_vars

\* On the Modules step, the first generated module holds its three
\* sub-topics in another order and a second module with a sub-topic of its
\* own is there to drop on.
C21_Witness ==
  /\ currentStep = 2
  /\ Len(data.modules) = 2
  /\ Ids(data.modules[1].subTopics)
       = << <<"sub", 1, 0, 2>>, <<"sub", 1, 0, 0>>, <<"sub", 1, 0, 1>> >>
  /\ Ids(data.modules[2].subTopics) = << <<"sub", 1, 1, 0>> >>

\* ---- C28
\* C28: a drag that ends with no drop target, or with the dragged item as its
\* own target, leaves the order of every list and the whole document
\* unchanged, for learning outcomes, modules, sub-topics and session rows.
C28_NoTargetChangesNothing ==
  [][/\ \A a \in DragIds(data.learningOutcomes) : \A b \in {NoOver, a} :
          DragEndOutcomes(a, b) => data' = data
     /\ \A a \in ModuleIds \cup SubTopicIds : \A b \in {NoOver, a} :
          DragEndModulesStep(a, b) => data' = data
     /\ \A a \in DragIds(data.sessionPlan) : \A b \in {NoOver, a} :
          DragEndSessionPlan(a, b) => data' = data]_vars

\* What holds: an item dropped on itself, and any drop without target on the
\* Modules step, change nothing.
C28_OwnTargetChangesNothing ==
  [][/\ \A a \in DragIds(data.learningOutcomes) : DragEndOutcomes(a, a) => data' = data
     /\ \A a \in ModuleIds \cup SubTopicIds : \A b \in {NoOver, a} :
          DragEndModulesStep(a, b) => data' = data
     /\ \A a \in DragIds(data.sessionPlan) : DragEndSessionPlan(a, a) => data' = data]_vars

\* ---- C29
\* C29: in safeGenerate every attempt after the first is preceded by a backoff
\* wait, whichever way the previous attempt failed (error, unparseable JSON
\* or empty text): when the n-th call is made, n - 1 waits have been made.
C29_BackoffBeforeEveryRetry ==
  sgLog.calls >= 2 => Len(sgLog.waits) >= sgLog.calls - 1

\* What holds: when the n-th call is made, one wait has been made for every
\* earlier attempt that raised an error, and none for one that came back
\* without text.
C29_BackoffAfterErrorsOnly ==
  sg.pc = "await" =>
    sgLog.waits = ErroredAttempts(sgLog.outcomes, 1)

\* ---- C25
\* C25: when a Save Draft completes successfully, the in-memory document
\* keeps every change made while the save was in flight: the completion
\* changes only the document's id and lastModified.
C25_SaveCompletionKeepsEdits ==
  [][SaveResolves =>
       \A f \in DOMAIN data \ {"id", "lastModified"} : data'[f] = data[f]]_vars

\* What holds: the completion makes the document the snapshot taken at the
\* click of one of the saves in flight.
C25_SaveCompletionRestoresSnapshot ==
  [][SaveResolves =>
       \E k \in 1..Len(pending) : pending[k].op = "save" /\ data' = pending[k].course]_vars

\* ---- C26
\* C26: whenever a draft save is in flight saveStatus is 'saving', so that the
\* button is disabled and at most one save is in flight; the timer that
\* resets 'saved' to 'idle' after one save never changes the status shown
\* for a later save.
C26_SavingWhileSaveInFlight ==
  /\ SavesInFlight # {} => saveStatus = "saving"
  /\ Cardinality(SavesInFlight) <= 1

\* What holds: a save starts only when the status is not 'saving', and sets it.
C26_SaveStartsWhenNotSaving ==
  [][handleSaveDraft => saveStatus # "saving" /\ saveStatus' = "saving"]_vars

\* ---- C24
\* The fields an AI action generates.
GeneratedFields(kind) ==
  CASE kind = "quickStart" ->
         {"courseTitle", "duration", "iceBreaker", "learningOutcomes", "modules"}
    [] kind = "generateModules" -> {"modules"}
    [] kind = "autoFillSessionPlan" -> {"sessionPlan"}
    [] OTHER -> {"reviewQuestions"}

\* C24: a successful AI action replaces only the fields it generates; every
\* other field, id and lastModified included, keeps the value it has when the
\* request completes, so that edits made while it was in flight are kept.
C24_GenerationReplacesOnlyItsFields ==
  [][AiResolves =>
       \E k \in 1..Len(gens) :
         /\ gens' = RemoveAt(gens, k)
         /\ DOMAIN data' = DOMAIN data
         /\ \A f \in DOMAIN data \ GeneratedFields(gens[k].kind) : data'[f] = data[f]
         /\ \A f \in GeneratedFields(gens[k].kind) :
              data'[f] = ApplyGenerated(gens[k].kind, INITIAL_COURSE_DATA,
                                        PayloadOf(gens[k].kind), now')[f]]_vars

\* The modules have been generated for a titled course and the title, emptied
\* on the first step, is the user's.
C24_Witness ==
  /\ ~isGenerating
  /\ requests = 1
  /\ data.modules = MapModules(ModulesPayload, now)
  /\ data.learningOutcomes = GetInitialData(1).learningOutcomes
  /\ data.courseTitle = EmptyTitle

\* ---- C22
\* The key a Settings field holds once the blanks around it are taken off;
\* empty when the field is blank.
KeyTyped(field) == IF field \in {"k1", " k1 "} THEN "k1" ELSE ""

\* C22: Save Settings with a key that is not blank after trimming stores
\* exactly the trimmed key, with a blank key it removes the stored key, and
\* it never changes the document; the stored key changes in no other way;
\* each generation call uses the key stored when it is made, and with no
\* stored key (and no environment key) it fails with the key-missing error
\* without a request being sent.
C22_CallUsesStoredKey ==
  [][/\ \A field \in KeyField :
          SaveSettings(field) =>
            /\ data' = data
            /\ storedKey' = IF KeyTyped(field) # "" THEN KeyTyped(field) ELSE None
     /\ storedKey' # storedKey => handleSaveSettings
     /\ \A kind \in AiKinds :
          (AiAction(kind) /\ AiPrecondition(kind)) =>
            IF storedKey = None /\ envKey = None
              THEN /\ SafeGenerateStart(storedKey, envKey).pc = "threw"
                   /\ SafeGenerateStart(storedKey, envKey).error = ErrKeyMissing
                   /\ gens' = gens
                   /\ alerts' = <<AiFailureAlert(kind)>>
              ELSE /\ Len(gens') = Len(gens) + 1
                   /\ gens'[Len(gens')].sg.apiKey = storedKey
                   /\ storedKey \notin {"", " ", " k1 "}]_vars

\* A course structure was generated with the stored key; the key was then
\* removed in the settings and the next Generate click has failed at once.
C22_Witness ==
  /\ storedKey = None
  /\ requests = 1
  /\ gens = << >>
  /\ data.courseTitle = <<"G">>
  /\ alerts = <<AiFailureAlert("quickStart")>>

\* ---- C23
\* C23: whenever isGenerating becomes true it eventually becomes false again:
\* every started AI action ends, by success or by failure, with isGenerating
\* false, provided each call of the service eventually returns or fails.
C23_GenerationEnds == isGenerating ~> ~isGenerating

\* Two requests were sent; the first gave the course structure, the second
\* failed, and the flag is down.
C23_Witness ==
  /\ requests = 2
  /\ ~isGenerating
  /\ gens = << >>
  /\ data.courseTitle = <<"G">>
  /\ alerts = <<AiFailureAlert("generateModules")>>

\* The fairness condition is on the completions and on nothing else: a step
\* of the page takes a request out of gens exactly when it is a completion.
C23_SettlesIsCompletion ==
  [][AiSettles <=> (AiResolves \/ AiRejects)]_vars

\* ---- C27
\* C27: 'Start New Blank Draft' always produces the same blank document: one
\* learning outcome with empty text, one module 'Module 1' with exactly one
\* empty sub-topic, an empty session plan, one review question with empty
\* text and no id, whatever was typed or added on earlier drafts.
C27_BlankDraftAlwaysTheSame ==
  [][StartNewBlankDraft =>
       /\ data'.id = NoId
       /\ Len(data'.learningOutcomes) = 1
       /\ data'.learningOutcomes[1].text = ""
       /\ Len(data'.modules) = 1
       /\ data'.modules[1].title = "Module 1"
       /\ Len(data'.modules[1].subTopics) = 1
       /\ data'.modules[1].subTopics[1].text = ""
       /\ data'.sessionPlan = << >>
       /\ Len(data'.reviewQuestions) = 1
       /\ data'.reviewQuestions[1].question = ""]_vars

\* What holds: the new draft is what the constant object holds at the click,
\* and that is the literal except for the outcome text and the sub-topics of
\* its module.
C27_BlankDraftIsTheConstant ==
  /\ [][StartNewBlankDraft => data' = initialCourseData]_vars
  /\ [](\A f \in DOMAIN INITIAL_COURSE_DATA \ {"learningOutcomes", "modules"} :
          initialCourseData[f] = INITIAL_COURSE_DATA[f])

====
